---- MODULE Spec2Model ----
(***************************************************************************)
(* Model of the keystone neural engine (src/neural-engine.js) and of the   *)
(* spindle worker (src/spindle-worker.js).                                 *)
(*                                                                         *)
(* The ring buffer is a SharedArrayBuffer holding a Uint32Array header     *)
(* (head, tail, generation, flags) and RING_SLOTS slots of FACET_SIZE      *)
(* floats.  A vector is modelled as a sequence of FACET_SIZE numbers; a    *)
(* slot of the Float32Array `slots` is modelled as one such sequence.      *)
(*                                                                         *)
(* Specifications:                                                         *)
(*   Spec      every RingBufferService call and every worker request runs  *)
(*             to completion before the next one starts.                   *)
(*   SpecIter  the RingBufferService calls, with the generator returned by *)
(*             iterate() resumed lazily between them.                      *)
(*   SpecConc  two producer threads (RingBufferService.push and the        *)
(*             worker's pushEmbedding) and a consumer thread (readNext);   *)
(*             their shared-memory accesses interleave.                    *)
(*   SpecRace  one producer thread and one consumer thread, each also able *)
(*             to run reset(), the consumer also a traversal of iterate(); *)
(*             their shared-memory accesses interleave.                    *)
(*   SpecSpsc  one producer thread (pushEmbedding) and one consumer thread *)
(*             (readNext); their shared-memory accesses interleave.        *)
(*   SpecMind  the calls of NeuralMindService (the arena of facets).       *)
(*   SpecMon   PrometheusService with its handlers: writeFacet,            *)
(*             onInterrupt, setThreshold and check().                      *)
(*   SpecTimer PrometheusService with its interval timer: start, stop and  *)
(*             the timer's callback.                                       *)
(*   SpecAdapt PrometheusService with its thresholds: setThreshold, adapt  *)
(*             and check().                                                *)
(*   SpecRouter NeuralRouterService over the arena: initializeToolMap,     *)
(*             route, routeTopK, updateTool and recordAccuracy.            *)
(*   SpecOps   the vector operations of SIMDOpsService called on operands  *)
(*             of the right and of wrong lengths.                          *)
(* The numbers of the monitor are exact fractions; the vectors it compares *)
(* are chosen so that their cosine similarity is a fraction.               *)
(***************************************************************************)
EXTENDS Integers, Sequences, FiniteSets, TLC

(* ------------------------------------------------------------------ *)
(* Sizes.  The program uses RING_SLOTS = 32 and FACET_SIZE = 512; the   *)
(* model is checked with scaled-down values of both.                    *)
(* ------------------------------------------------------------------ *)
RING_SLOTS == 3

FACET_SIZE == 2

\* largest element value of a pushed vector (0 is the value of zeroed memory)
MaxVal == 2

\* the generation counter is a Uint32; pushes that would raise it past
\* MaxGen are not explored
MaxGen == 1

\* the program uses NUM_FACETS = 16
NUM_FACETS == 3

\* largest element value the arena operations are explored with
MindMax == 1

\* setInterval ids handed out in one behaviour
MaxTimers == 2

\* handlers registered per facet in one behaviour
MaxHandlers == 2

\* adapt steps applied to one threshold in one behaviour
MaxAdapts == 1

VARIABLES
  header,      \* Uint32Array(ring,0,4): header[0]=head, [1]=tail, [2]=generation, [3]=flags
  slots,       \* slots[i]: the FACET_SIZE floats of ring slot i
  ringHeader,  \* worker: TRUE when ringHeader/ringSlots are bound (non-null)
  last,        \* name of the operation performed by the latest step
  ret,         \* what the latest RingBufferService call returned or threw
  messages,    \* the messages the latest worker request posted, in order
  pending,     \* history: vectors pushed successfully and not yet returned, oldest first
  fresh,       \* history: no readNext has returned a vector since construction/reset
  gen_it,      \* the generator object of iterate()
  prod,        \* SpecConc: per producer thread, its position in push and its locals
  cons,        \* SpecConc: the consumer thread's position in readNext and its locals
  claims,      \* SpecConc, history: number of successful compareExchange calls on head
  rst,         \* SpecRace: the thread that runs reset() and its position in it
  unread,      \* threads, history: slots holding a completed push readNext has not returned
  view,        \* threads, history: slot the consumer's latest readNext returned (-1: none)
  mindView,    \* NeuralMindService: Float32Array over the whole arena
  lastSnapshot,\* NeuralMindService: lastSnapshot[i], the shadow vector of facet i
  applied,     \* history: applied[i], what the latest applyGradient added to facet i
  thresholds,  \* PrometheusService: Map facet -> cfg, as its entries in insertion order
  lastStates,  \* PrometheusService: Map facet -> last observed vector
  handlers,    \* PrometheusService: Map facet -> handlers in registration order
  monitoring,  \* PrometheusService: the monitoring flag
  intervalId,  \* PrometheusService: id returned by the latest setInterval (0: null)
  timers,      \* the interval timers that are active
  calls,       \* the handler invocations of the latest check() pass, in order
  fired,       \* the interrupts (intr) the latest check() pass handed to fire, in order
  toolMap,     \* NeuralRouterService: the tools, in registration order
  routed,      \* the results the latest route() / routeTopK() call returned, in order
  recorded,    \* history: recordAccuracy calls applied since the latest initializeToolMap
  operand,     \* the vector a SIMDOpsService call works on in place, after the call
  intentVector, \* the array the results of the latest route() / routeTopK() hold
  seeds,       \* the centroid arrays of the list the caller handed to initializeToolMap
  shared,      \* the tools whose centroid array is the caller's seed array itself
  args         \* the arguments of the latest arena, monitor, router or vector call

vars == <<header, slots, ringHeader, last, ret, messages, pending, fresh, gen_it,
          prod, cons, claims, rst, unread, view,
          mindView, lastSnapshot, applied, thresholds, lastStates, handlers, monitoring,
          intervalId, timers, calls, fired, toolMap, routed, recorded, operand,
          intentVector, seeds, shared, args>>

\* the state of the ring buffer and of the worker, apart from last and ret
ringVars == <<header, slots, ringHeader, messages, pending, fresh, gen_it,
              prod, cons, claims, rst, unread, view>>

\* the state of the arena
mindVars == <<mindView, lastSnapshot, applied>>

\* the state of the monitor
monVars == <<thresholds, lastStates, handlers, monitoring, intervalId, timers, calls,
            fired>>

\* the state of the router and the operand of the vector operations
routerVars == <<toolMap, routed, recorded, operand, intentVector, seeds, shared>>

\* the arrays callers of the router hold
heldVars == <<intentVector, seeds, shared>>

\* what the steps of the threads leave alone besides callVars
engineVars == <<mindVars, monVars, routerVars, args>>

\* what the run-to-completion operations leave alone
threadVars == <<prod, cons, claims, rst, unread, view>>

\* what the steps of the threads leave alone
callVars == <<ringHeader, last, ret, messages, pending, fresh, gen_it>>

(* ------------------------------------------------------------------ *)
(* Vectors                                                              *)
(* ------------------------------------------------------------------ *)
Vec(len, v) == [i \in 1..len |-> v]

ZeroVec == Vec(FACET_SIZE, 0)

\* vectors a caller may hand to push / pushEmbedding: right and wrong lengths
Embeddings ==
  {Vec(FACET_SIZE, v) : v \in 1..MaxVal}
    \cup {Vec(FACET_SIZE - 1, 1), Vec(FACET_SIZE + 1, 1)}

SlotIndices == 0..(RING_SLOTS - 1)

(* ------------------------------------------------------------------ *)
(* Return values of RingBufferService calls                             *)
(* ------------------------------------------------------------------ *)
NoRet == [kind |-> "none", index |-> 0, value |-> <<>>, error |-> ""]

RetIndex(i) == [kind |-> "index", index |-> i, value |-> <<>>, error |-> ""]

RetView(i, v) == [kind |-> "view", index |-> i, value |-> v, error |-> ""]

RetNull == [kind |-> "null", index |-> 0, value |-> <<>>, error |-> ""]

RetVoid == [kind |-> "void", index |-> 0, value |-> <<>>, error |-> ""]

Throw(msg) == [kind |-> "throw", index |-> 0, value |-> <<>>, error |-> msg]

(* ------------------------------------------------------------------ *)
(* RingBufferService: index arithmetic and queries                      *)
(* ------------------------------------------------------------------ *)
\* (head+1)%RING_SLOTS, (tail+1)%RING_SLOTS, (cur+1)%RING_SLOTS
NextIndexNoWrap(i) == i + 1

NextIndex(i) == (i + 1) % RING_SLOTS

getHead(h) == h[0]

getTail(h) == h[1]

getGeneration(h) == h[2]

isFull(h) == NextIndex(getHead(h)) = getTail(h) /\ h[2] > 0

available(h) ==
  IF getHead(h) >= getTail(h) THEN getHead(h) - getTail(h)
  ELSE RING_SLOTS - getTail(h) + getHead(h)

\* a full test that compares head, not next, with tail
PushFullHeadEqTail(h) == h[0] = h[1]

\* the condition under which push / rotateHead throw 'Ring buffer full'
PushFull(h) == NextIndex(h[0]) = h[1]

\* an empty test that leaves generation out
ReadEmptyHeadEqTail(h) == h[0] = h[1]

\* the condition under which readNext returns null
ReadEmpty(h) == h[0] = h[1] /\ h[2] = 0

\* header after the four Atomics.store(…,0) of the constructor, reset and init
ZeroHeaderKeepGeneration(h) == [i \in 0..3 |-> IF i = 2 THEN h[2] ELSE 0]

ZeroHeader(h) == [i \in 0..3 |-> 0]

ZeroSlots == [i \in SlotIndices |-> ZeroVec]

(* ------------------------------------------------------------------ *)
(* History bookkeeping (not program state)                              *)
(* ------------------------------------------------------------------ *)
Pushed(q, emb) == Append(q, emb)

Returned(q) == IF q = <<>> THEN q ELSE Tail(q)

(* ------------------------------------------------------------------ *)
(* Initial state: new RingBufferService(), worker not initialised       *)
(* ------------------------------------------------------------------ *)
\* producer threads: "main" runs RingBufferService.push, "worker" runs pushEmbedding
Producers == {"main", "worker"}

\* pc: where the thread stands; head, next: the locals of the loop; emb: the
\* argument; ticket (history): the value of claims when this push claimed its slot
IdleProducer == [pc |-> "idle", head |-> 0, next |-> 0, emb |-> <<>>, ticket |-> 0]

\* pc: where the thread stands in readNext or in a traversal of iterate();
\* head: the local head; tail: the local tail of readNext, cur of iterate
IdleConsumer == [pc |-> "idle", head |-> 0, tail |-> 0]

\* by: the thread inside reset() ("none", "worker" or "consumer"); pc: its position
NoReset == [by |-> "none", pc |-> "idle"]

NoGen == [state |-> "none", head |-> 0, cur |-> 0, yielded |-> <<>>,
          tail0 |-> 0, avail0 |-> 0]

(* ------------------------------------------------------------------ *)
(* Numbers of the monitor: thresholds, learning rates and similarities  *)
(* are kept as exact fractions [n, d] in lowest terms, d > 0            *)
(* ------------------------------------------------------------------ *)
Abs(x) == IF x < 0 THEN -x ELSE x

RECURSIVE GCD(_, _)
GCD(a, b) == IF b = 0 THEN a ELSE GCD(b, a % b)

Rat(n, d) ==
  LET g == GCD(Abs(n), Abs(d))
      sgn == IF d < 0 THEN -1 ELSE 1
  IN [n |-> sgn * (n \div g), d |-> sgn * (d \div g)]

\* a - b, over the least common denominator
RatSub(a, b) ==
  LET l == (a.d \div GCD(a.d, b.d)) * b.d
  IN Rat(a.n * (l \div a.d) - b.n * (l \div b.d), l)

RatMul(a, b) == Rat(a.n * b.n, a.d * b.d)

RatLess(a, b) == a.n * b.d < b.n * a.d

\* Math.max(a,b), Math.min(a,b)
RatMax(a, b) == IF RatLess(a, b) THEN b ELSE a

RatMin(a, b) == IF RatLess(b, a) THEN b ELSE a

(* ------------------------------------------------------------------ *)
(* NeuralMindService: the arena and its facet views                     *)
(* ------------------------------------------------------------------ *)
Facets == 0..(NUM_FACETS - 1)

\* the floats of the arena that the facet views cover
MindIndices == 0..(NUM_FACETS * FACET_SIZE - 1)

\* a stride one float short, so that neighbouring views overlap
FacetOffsetShort(i) == i * (FACET_SIZE - 1)

\* off = i*FACET_SIZE*4 bytes, as an index of mindView
FacetOffset(i) == i * FACET_SIZE

\* facetViews[i] = new Float32Array(mind, off, FACET_SIZE), read through mindView m
FacetView(m, i) == [k \in 1..FACET_SIZE |-> m[FacetOffset(i) + k - 1]]

\* the arguments recorded for a call
NoArgs == [facet |-> -1, vec |-> <<>>, observed |-> Rat(0, 1), handler |-> 0,
           lr |-> 0, mom |-> 0, toolId |-> 0, k |-> 0, correct |-> FALSE,
           tools |-> <<>>, vec2 |-> <<>>, scale |-> 0, handle |-> ""]

CallArgs(facet) == [NoArgs EXCEPT !.facet = facet]

(* ------------------------------------------------------------------ *)
(* PrometheusService: state after the constructor                       *)
(* ------------------------------------------------------------------ *)
\* const defaultCfg = { threshold:0.7, learningRate:0.01, momentum:0.9 }
defaultCfg(f) ==
  [facet |-> f, threshold |-> Rat(7, 10), learningRate |-> Rat(1, 100),
   momentum |-> Rat(9, 10), adapts |-> 0]

\* the facets monitored from construction (the program: INTENT, CONTEXT,
\* EMOTION, ACTION, ERROR of its 16 facets)
monitored == <<0, 1>>

\* the arena and the monitor as their constructors leave them
NewEngine ==
  /\ mindView = [j \in MindIndices |-> 0]
  /\ lastSnapshot = [i \in Facets |-> ZeroVec]
  /\ applied = [i \in Facets |-> ZeroVec]
  /\ thresholds = [k \in 1..Len(monitored) |-> defaultCfg(monitored[k])]
  /\ lastStates = [f \in {monitored[k] : k \in 1..Len(monitored)} |-> ZeroVec]
  /\ handlers = [f \in {monitored[k] : k \in 1..Len(monitored)} |-> <<>>]
  /\ monitoring = FALSE
  /\ intervalId = 0
  /\ timers = {}
  /\ calls = <<>>
  /\ fired = <<>>
  /\ toolMap = <<>>
  /\ routed = <<>>
  /\ recorded = 0
  /\ operand = <<>>
  /\ intentVector = [kind |-> "none", data |-> <<>>]
  /\ seeds = <<>>
  /\ shared = {}
  /\ args = NoArgs

Init ==
  /\ header = [i \in 0..3 |-> 0]
  /\ slots = ZeroSlots
  /\ ringHeader = FALSE
  /\ last = "new"
  /\ ret = NoRet
  /\ messages = <<>>
  /\ pending = <<>>
  /\ fresh = TRUE
  /\ gen_it = NoGen
  /\ prod = [p \in Producers |-> IdleProducer]
  /\ cons = IdleConsumer
  /\ claims = 0
  /\ rst = NoReset
  /\ unread = {}
  /\ view = -1
  /\ NewEngine

(* ------------------------------------------------------------------ *)
(* RingBufferService.push(embedding), run to completion                 *)
(* ------------------------------------------------------------------ *)
Outcome(err, idx, h, s) == [error |-> err, index |-> idx, header |-> h, slots |-> s]

\* this.slots.set(embedding, head*FACET_SIZE) / ringSlots.set(emb, idx*FACET_SIZE)
SlotSet(s, idx, emb) == [s EXCEPT ![idx] = emb]

\* a push that stores the vector before it finds the ring full
servicePushOverwriting(h, s, embedding) ==
  IF Len(embedding) # FACET_SIZE
  THEN Outcome("Embedding must be FACET_SIZE", 0, h, s)
  ELSE LET head == h[0]
           next == NextIndex(head)
       IN IF PushFull(h)
          THEN Outcome("Ring buffer full", 0, h, SlotSet(s, head, embedding))
          ELSE Outcome("", head,
                       [h EXCEPT ![0] = next, ![2] = IF next = 0 THEN @ + 1 ELSE @],
                       SlotSet(s, head, embedding))

\* what push throws or returns, and the header and slots it leaves.  With no
\* other thread running, the compareExchange of the loop succeeds at once.
servicePush(h, s, embedding) ==
  IF Len(embedding) # FACET_SIZE
  THEN Outcome("Embedding must be FACET_SIZE", 0, h, s)
  ELSE LET head == h[0]
           next == NextIndex(head)
       IN IF PushFull(h)
          THEN Outcome("Ring buffer full", 0, h, s)
          ELSE Outcome("", head,
                       [h EXCEPT ![0] = next, ![2] = IF next = 0 THEN @ + 1 ELSE @],
                       SlotSet(s, head, embedding))

\* the generation counter stays within the explored range
WithinMaxGen(o) == o.header[2] <= MaxGen

push(embedding) ==
  LET o == servicePush(header, slots, embedding)
  IN /\ WithinMaxGen(o)
     /\ last' = "push"
     /\ args' = NoArgs
     /\ UNCHANGED <<threadVars, mindVars, monVars, routerVars>>
     /\ messages' = <<>>
     /\ header' = o.header
     /\ slots' = o.slots
     /\ ret' = IF o.error = "" THEN RetIndex(o.index) ELSE Throw(o.error)
     /\ pending' = IF o.error = "" THEN Pushed(pending, embedding) ELSE pending
     /\ UNCHANGED <<ringHeader, fresh, gen_it>>

(* ------------------------------------------------------------------ *)
(* RingBufferService.readNext()                                         *)
(* ------------------------------------------------------------------ *)
readNext ==
  /\ last' = "readNext"
  /\ args' = NoArgs
  /\ UNCHANGED <<threadVars, mindVars, monVars, routerVars>>
  /\ messages' = <<>>
  /\ UNCHANGED <<slots, ringHeader, gen_it>>
  /\ IF ReadEmpty(header)
     THEN /\ ret' = RetNull
          /\ UNCHANGED <<header, pending, fresh>>
     ELSE LET tail == header[1]
          IN /\ header' = [header EXCEPT ![1] = NextIndex(tail)]
             /\ ret' = RetView(tail, slots[tail])
             /\ pending' = Returned(pending)
             /\ fresh' = FALSE

(* ------------------------------------------------------------------ *)
(* RingBufferService.reset()                                            *)
(* ------------------------------------------------------------------ *)
reset ==
  /\ last' = "reset"
  /\ args' = NoArgs
  /\ UNCHANGED <<threadVars, mindVars, monVars, routerVars>>
  /\ messages' = <<>>
  /\ header' = ZeroHeader(header)
  /\ slots' = ZeroSlots
  /\ ret' = RetVoid
  /\ pending' = <<>>
  /\ fresh' = TRUE
  /\ UNCHANGED <<ringHeader, gen_it>>

(* ------------------------------------------------------------------ *)
(* Spindle worker: messages posted with postMessage                     *)
(* ------------------------------------------------------------------ *)
Msg(type) ==
  [type |-> type, slotIndex |-> 0, toolId |-> 0, message |-> "",
   head |-> 0, tail |-> 0, generation |-> 0, available |-> 0]

ErrorMsg(text) == [Msg("error") EXCEPT !.message = text]

PushedMsg(type, idx, toolId) ==
  [Msg(type) EXCEPT !.slotIndex = idx, !.toolId = toolId]

\* getAvailableSlots(), called with ringHeader bound
getAvailableSlots(h) == IF h[0] >= h[1] THEN h[0] - h[1] ELSE RING_SLOTS - h[1] + h[0]

StatsMsg(h) ==
  [Msg("stats") EXCEPT !.head = h[0], !.tail = h[1], !.generation = h[2],
                       !.available = getAvailableSlots(h)]

\* request payloads
ToolIds == {1, 2}

\* result strings, as sequences of char codes
Strings == {<<97>>, <<98>>}

RingHandles == {"missing", "small", "ok"}

\* byteLength >= RING_HEADER_SIZE + RING_SLOTS*FACET_SIZE*4 and the handle is present
RingHandleOk(ringBuffer) == ringBuffer = "ok"

\* hash = ((hash<<5)-hash)+charCode, hash |= 0  (no overflow for the strings above)
RECURSIVE StringHash(_, _)
StringHash(str, hash) ==
  IF str = <<>> THEN hash
  ELSE StringHash(Tail(str), ((hash * 32) - hash) + Head(str))

\* encodeString: a vector of FACET_SIZE floats fixed by the seed hash + toolId*31337.
\* The generator's stream is abstracted to one non-zero value per seed class.
encodeString(str, toolId) ==
  LET rng == StringHash(str, 0) + toolId * 31337
  IN Vec(FACET_SIZE, (rng % MaxVal) + 1)

(* ------------------------------------------------------------------ *)
(* messageHandler, one action per case of the switch                    *)
(* ------------------------------------------------------------------ *)
\* an init that drops the bound views before it validates the buffer
WorkerInitUnbinding(ringBuffer) ==
  /\ last' = "init"
  /\ args' = [NoArgs EXCEPT !.handle = ringBuffer]
  /\ UNCHANGED <<threadVars, mindVars, monVars, routerVars>>
  /\ ret' = NoRet
  /\ UNCHANGED <<slots, gen_it>>
  /\ IF ~RingHandleOk(ringBuffer)
     THEN /\ messages' = <<ErrorMsg("Ring buffer too small")>>
          /\ ringHeader' = FALSE
          /\ UNCHANGED <<header, pending, fresh>>
     ELSE /\ ringHeader' = TRUE
          /\ header' = ZeroHeader(header)
          /\ messages' = <<Msg("initialized"), Msg("initialized")>>
          /\ pending' = <<>>
          /\ fresh' = TRUE

\* case 'init': init() posts 'initialized', then the handler posts it again
WorkerInit(ringBuffer) ==
  /\ last' = "init"
  /\ args' = [NoArgs EXCEPT !.handle = ringBuffer]
  /\ UNCHANGED <<threadVars, mindVars, monVars, routerVars>>
  /\ ret' = NoRet
  /\ UNCHANGED <<slots, gen_it>>
  /\ IF ~RingHandleOk(ringBuffer)
     THEN /\ messages' = <<ErrorMsg("Ring buffer too small")>>
          /\ UNCHANGED <<header, ringHeader, pending, fresh>>
     ELSE /\ ringHeader' = TRUE
          /\ header' = ZeroHeader(header)
          /\ messages' = <<Msg("initialized"), Msg("initialized")>>
          /\ pending' = <<>>
          /\ fresh' = TRUE

\* a pushEmbedding whose rotateHead never adds to generation
pushEmbeddingNoGeneration(h, s, emb) ==
  IF Len(emb) # FACET_SIZE
  THEN Outcome("Embedding must be FACET_SIZE", 0, h, s)
  ELSE IF PushFull(h)
  THEN Outcome("Ring buffer full", 0, h, s)
  ELSE Outcome("", h[0], [h EXCEPT ![0] = NextIndex(h[0])], SlotSet(s, h[0], emb))

\* pushEmbedding(emb) with rotateHead() inlined: what it throws or returns, and
\* the header and slots it leaves (ringSlots is bound)
pushEmbedding(h, s, emb) ==
  IF Len(emb) # FACET_SIZE
  THEN Outcome("Embedding must be FACET_SIZE", 0, h, s)
  ELSE LET head == h[0]
           next == NextIndex(head)
       IN IF PushFull(h)
          THEN Outcome("Ring buffer full", 0, h, s)
          ELSE Outcome("", head,
                       [h EXCEPT ![0] = next, ![2] = IF next = 0 THEN @ + 1 ELSE @],
                       SlotSet(s, head, emb))

\* the cases 'pushToolResult' and 'pushEmbedding': push, then post okType, or
\* post the error caught by the handler
WorkerPush(op, okType, emb, toolId) ==
  LET o == IF ringHeader THEN pushEmbedding(header, slots, emb)
           ELSE Outcome("Worker not initialised", 0, header, slots)
  IN /\ WithinMaxGen(o)
     /\ last' = op
     /\ args' = NoArgs
     /\ UNCHANGED <<threadVars, mindVars, monVars, routerVars>>
     /\ ret' = NoRet
     /\ header' = o.header
     /\ slots' = o.slots
     /\ messages' = IF o.error = "" THEN <<PushedMsg(okType, o.index, toolId)>>
                    ELSE <<ErrorMsg(o.error)>>
     /\ pending' = IF o.error = "" THEN Pushed(pending, emb) ELSE pending
     /\ UNCHANGED <<ringHeader, fresh, gen_it>>

\* case 'pushToolResult'
WorkerPushToolResult(result, toolId) ==
  WorkerPush("pushToolResult", "toolResultPushed", encodeString(result, toolId), toolId)

\* case 'pushEmbedding': new Float32Array(embedding) keeps the length and the elements
WorkerPushEmbedding(embedding, toolId) ==
  WorkerPush("pushEmbedding", "embeddingPushed", embedding, toolId)

\* case 'getStats': answers only when ringHeader is bound
WorkerGetStats ==
  /\ last' = "getStats"
  /\ args' = NoArgs
  /\ UNCHANGED <<threadVars, mindVars, monVars, routerVars>>
  /\ ret' = NoRet
  /\ messages' = IF ringHeader THEN <<StatsMsg(header)>> ELSE <<>>
  /\ UNCHANGED <<header, slots, ringHeader, pending, fresh, gen_it>>

\* case 'reset': resets and answers only when ringHeader is bound
WorkerReset ==
  /\ last' = "workerReset"
  /\ args' = NoArgs
  /\ UNCHANGED <<threadVars, mindVars, monVars, routerVars>>
  /\ ret' = NoRet
  /\ UNCHANGED <<ringHeader, gen_it>>
  /\ IF ringHeader
     THEN /\ header' = ZeroHeader(header)
          /\ slots' = ZeroSlots
          /\ messages' = <<Msg("resetComplete")>>
          /\ pending' = <<>>
          /\ fresh' = TRUE
     ELSE /\ messages' = <<>>
          /\ UNCHANGED <<header, slots, pending, fresh>>

\* request types that no case of the switch names
UnknownTypes == {"unknownMessage", "ping"}

\* an error text that leaves the type out
UnknownTextNoType(type) == "Unknown message"

\* `Unknown message ${type}`
UnknownText(type) == "Unknown message " \o type

\* default case
WorkerUnknown(type) ==
  /\ last' = type
  /\ args' = NoArgs
  /\ UNCHANGED <<threadVars, mindVars, monVars, routerVars>>
  /\ ret' = NoRet
  /\ messages' = <<ErrorMsg(UnknownText(type))>>
  /\ UNCHANGED <<header, slots, ringHeader, pending, fresh, gen_it>>

Next ==
  \/ \E embedding \in Embeddings : push(embedding)
  \/ readNext
  \/ reset
  \/ \E ringBuffer \in RingHandles : WorkerInit(ringBuffer)
  \/ \E result \in Strings, toolId \in ToolIds : WorkerPushToolResult(result, toolId)
  \/ \E embedding \in Embeddings, toolId \in ToolIds : WorkerPushEmbedding(embedding, toolId)
  \/ WorkerGetStats
  \/ WorkerReset
  \/ \E type \in UnknownTypes : WorkerUnknown(type)

Spec == Init /\ [][Next]_vars

(* ------------------------------------------------------------------ *)
(* RingBufferService.iterate(): a generator, resumed by next()          *)
(*   state "created"   : iterate() was called, the body has not run     *)
(*   state "suspended" : the body is stopped at its yield               *)
(*   state "done"      : the body has returned                          *)
(* head and cur are the locals of the body; yielded lists the indices   *)
(* of the slots yielded so far; tail0 and avail0 record tail and        *)
(* available() when the body started (history).                         *)
(* ------------------------------------------------------------------ *)
iterate ==
  /\ last' = "iterate"
  /\ args' = NoArgs
  /\ UNCHANGED <<threadVars, mindVars, monVars, routerVars>>
  /\ ret' = RetVoid
  /\ messages' = <<>>
  /\ gen_it' = [NoGen EXCEPT !.state = "created"]
  /\ UNCHANGED <<header, slots, ringHeader, pending, fresh>>

\* first value of cur: this.getTail()
IterFirstSkippingTail(h) == NextIndex(getTail(h))

IterFirst(h) == getTail(h)

\* the test of the while loop, then the yield or the return
IterLoop(g, cur) ==
  IF cur # g.head
  THEN [g EXCEPT !.state = "suspended", !.cur = cur, !.yielded = Append(@, cur)]
  ELSE [g EXCEPT !.state = "done", !.cur = cur]

IterNext ==
  /\ gen_it.state \in {"created", "suspended"}
  /\ last' = "next"
  /\ args' = NoArgs
  /\ UNCHANGED <<threadVars, mindVars, monVars, routerVars>>
  /\ ret' = RetVoid
  /\ messages' = <<>>
  /\ gen_it' =
       IF gen_it.state = "created"
       THEN IterLoop([gen_it EXCEPT !.head = getHead(header),
                                    !.tail0 = getTail(header),
                                    !.avail0 = available(header)],
                     IterFirst(header))
       ELSE IterLoop(gen_it, NextIndex(gen_it.cur))
  /\ UNCHANGED <<header, slots, ringHeader, pending, fresh>>

\* the traversal yields slot indices: one vector value is enough to tell a
\* written slot from a zeroed one
IterEmbeddings == {Vec(FACET_SIZE, 1)}

NextIter ==
  \/ \E embedding \in IterEmbeddings : push(embedding)
  \/ readNext
  \/ reset
  \/ iterate
  \/ IterNext

SpecIter == Init /\ [][NextIter]_vars

(* ------------------------------------------------------------------ *)
(* Threads sharing the ring: one step per shared-memory access          *)
(*                                                                      *)
(* Producer pc:                                                         *)
(*   idle -> loadHead -> loadTail -> cas -> (claimed) -> idle           *)
(* where (claimed) is  write, then gen   for RingBufferService.push     *)
(*                and  gen, then write   for rotateHead/pushEmbedding,  *)
(* gen being taken only when next = 0.                                  *)
(* ------------------------------------------------------------------ *)
\* the claims checked under SpecConc are about slot indices: one vector value is
\* enough to tell a written slot from a zeroed one
ConcEmbeddings == {Vec(FACET_SIZE, 1)}

\* a push between its successful compareExchange and the end of its slot write
Claimed(pr) ==
  \/ pr.pc = "write"
  \/ pr.pc = "gen" /\ pr.emb # <<>>

\* pushes that have claimed a wrapping slot and not yet added to generation
GenAddsDue ==
  Cardinality({p \in Producers : prod[p].pc \in {"write", "gen"} /\ prod[p].next = 0
                                   /\ (p = "main" \/ prod[p].pc = "gen")})

\* entry of push(embedding) / pushEmbedding(emb): the length check passes
PushCall(p, emb) ==
  /\ prod[p].pc = "idle"
  /\ rst.by # p
  /\ Len(emb) = FACET_SIZE
  /\ p = "worker" => ringHeader
  /\ prod' = [prod EXCEPT ![p] = [IdleProducer EXCEPT !.pc = "loadHead", !.emb = emb]]
  /\ UNCHANGED <<header, slots, cons, claims, rst>>
  /\ UNCHANGED <<callVars, engineVars, unread, view>>

\* head = Atomics.load(header,0); next = (head+1)%RING_SLOTS
PushLoadHead(p) ==
  /\ prod[p].pc = "loadHead"
  /\ prod' = [prod EXCEPT ![p].pc = "loadTail",
                          ![p].head = header[0],
                          ![p].next = NextIndex(header[0])]
  /\ UNCHANGED <<header, slots, cons, claims, rst>>
  /\ UNCHANGED <<callVars, engineVars, unread, view>>

\* tail = Atomics.load(header,1); if(next===tail) throw
PushLoadTail(p) ==
  /\ prod[p].pc = "loadTail"
  /\ prod' = [prod EXCEPT ![p] = IF prod[p].next = header[1]
                                 THEN IdleProducer
                                 ELSE [@ EXCEPT !.pc = "cas"]]
  /\ UNCHANGED <<header, slots, cons, claims, rst>>
  /\ UNCHANGED <<callVars, engineVars, unread, view>>

\* a compareExchange that stores without comparing
CasSucceedsAlways(h, expected) == TRUE

\* Atomics.compareExchange(header,0,head,next) === head
CasSucceeds(h, expected) == h[0] = expected

\* the thread's position after a successful compareExchange
AfterCas(p, next) ==
  IF p = "main" THEN "write" ELSE IF next = 0 THEN "gen" ELSE "write"

PushCas(p) ==
  /\ prod[p].pc = "cas"
  /\ IF CasSucceeds(header, prod[p].head)
     THEN /\ prod[p].next = 0 => header[2] + GenAddsDue < MaxGen
          /\ header' = [header EXCEPT ![0] = prod[p].next]
          /\ prod' = [prod EXCEPT ![p].pc = AfterCas(p, prod[p].next),
                                  ![p].ticket = claims]
          /\ claims' = claims + 1
     ELSE /\ prod' = [prod EXCEPT ![p].pc = "loadHead"]
          /\ UNCHANGED <<header, claims>>
  /\ UNCHANGED <<slots, cons, rst>>
  /\ UNCHANGED <<callVars, engineVars, unread, view>>

\* slots.set(embedding, head*FACET_SIZE) / ringSlots.set(emb, idx*FACET_SIZE)
PushWrite(p) ==
  /\ prod[p].pc = "write"
  /\ slots' = SlotSet(slots, prod[p].head, prod[p].emb)
  /\ prod' = [prod EXCEPT ![p] = IF p = "main" /\ prod[p].next = 0
                                 THEN [@ EXCEPT !.pc = "gen", !.emb = <<>>]
                                 ELSE IdleProducer]
  /\ unread' = unread \cup {prod[p].head}
  /\ UNCHANGED <<header, cons, claims, rst>>
  /\ UNCHANGED <<callVars, engineVars, view>>

\* if(next===0) Atomics.add(header,2,1)
PushGen(p) ==
  /\ prod[p].pc = "gen"
  /\ header' = [header EXCEPT ![2] = @ + 1]
  /\ prod' = [prod EXCEPT ![p] = IF p = "main" THEN IdleProducer
                                 ELSE [@ EXCEPT !.pc = "write"]]
  /\ UNCHANGED <<slots, cons, claims, rst>>
  /\ UNCHANGED <<callVars, engineVars, unread, view>>

\* readNext: head = Atomics.load(header,0)
ReadLoadHead ==
  /\ cons.pc = "idle"
  /\ rst.by # "consumer"
  /\ cons' = [IdleConsumer EXCEPT !.pc = "loadTail", !.head = header[0]]
  /\ view' = -1
  /\ UNCHANGED <<header, slots, prod, claims, rst>>
  /\ UNCHANGED <<callVars, engineVars, unread>>

\* tail = Atomics.load(header,1); head===tail decides whether generation is read
ReadLoadTail ==
  /\ cons.pc = "loadTail"
  /\ cons' = [cons EXCEPT !.pc = IF cons.head = header[1] THEN "loadGen" ELSE "store",
                          !.tail = header[1]]
  /\ UNCHANGED <<header, slots, prod, claims, rst>>
  /\ UNCHANGED <<callVars, engineVars, unread, view>>

\* Atomics.load(header,2)===0 : return null
ReadLoadGen ==
  /\ cons.pc = "loadGen"
  /\ cons' = IF header[2] = 0 THEN IdleConsumer ELSE [cons EXCEPT !.pc = "store"]
  /\ UNCHANGED <<header, slots, prod, claims, rst>>
  /\ UNCHANGED <<callVars, engineVars, unread, view>>

\* Atomics.store(header,1,(tail+1)%RING_SLOTS); return view
ReadStoreTail ==
  /\ cons.pc = "store"
  /\ header' = [header EXCEPT ![1] = NextIndex(cons.tail)]
  /\ cons' = IdleConsumer
  /\ unread' = unread \ {cons.tail}
  /\ view' = cons.tail
  /\ UNCHANGED <<slots, prod, claims, rst>>
  /\ UNCHANGED <<callVars, engineVars>>

\* the worker has been initialised on the ring of the RingBufferService
InitConc ==
  /\ header = [i \in 0..3 |-> 0]
  /\ slots = ZeroSlots
  /\ ringHeader = TRUE
  /\ last = "new"
  /\ ret = NoRet
  /\ messages = <<>>
  /\ pending = <<>>
  /\ fresh = TRUE
  /\ gen_it = NoGen
  /\ prod = [p \in Producers |-> IdleProducer]
  /\ cons = IdleConsumer
  /\ claims = 0
  /\ rst = NoReset
  /\ unread = {}
  /\ view = -1
  /\ NewEngine

NextConc ==
  \/ \E p \in Producers, emb \in ConcEmbeddings : PushCall(p, emb)
  \/ \E p \in Producers : PushLoadHead(p)
  \/ \E p \in Producers : PushLoadTail(p)
  \/ \E p \in Producers : PushCas(p)
  \/ \E p \in Producers : PushWrite(p)
  \/ \E p \in Producers : PushGen(p)
  \/ ReadLoadHead
  \/ ReadLoadTail
  \/ ReadLoadGen
  \/ ReadStoreTail

SpecConc == InitConc /\ [][NextConc]_vars

(* ------------------------------------------------------------------ *)
(* SpecRace: the two threads of the supported configuration.            *)
(*   "worker"   : the producer; it runs pushEmbedding or the reset case *)
(*   "consumer" : runs readNext, a traversal  for(const s of iterate()) *)
(*                or reset()                                            *)
(* A thread runs one call at a time; the shared-memory accesses of the  *)
(* two threads interleave.  reset() is its four Atomics.store calls and *)
(* slots.fill(0), one step each:                                        *)
(*   idle -> head -> tail -> gen -> flags -> fill -> idle               *)
(* ------------------------------------------------------------------ *)
RaceThreads == {"worker", "consumer"}

ThreadIdle(t) == IF t = "worker" THEN prod["worker"].pc = "idle" ELSE cons.pc = "idle"

\* the header word each position of reset() stores 0 into
ResetWord(pc) == CASE pc = "head" -> 0 [] pc = "tail" -> 1 [] pc = "gen" -> 2 [] OTHER -> 3

ResetAfter(pc) ==
  CASE pc = "head" -> "tail" [] pc = "tail" -> "gen" [] pc = "gen" -> "flags" [] OTHER -> "fill"

ResetCall(t) ==
  /\ rst = NoReset
  /\ ThreadIdle(t)
  /\ rst' = [by |-> t, pc |-> "head"]
  /\ unread' = {}
  /\ view' = -1
  /\ UNCHANGED <<header, slots, prod, cons, claims>>
  /\ UNCHANGED <<callVars, engineVars>>

\* Atomics.store(header,i,0)
ResetStore ==
  /\ rst.pc \in {"head", "tail", "gen", "flags"}
  /\ header' = [header EXCEPT ![ResetWord(rst.pc)] = 0]
  /\ rst' = [rst EXCEPT !.pc = ResetAfter(rst.pc)]
  /\ claims' = IF rst.pc = "head" THEN 0 ELSE claims
  /\ UNCHANGED <<slots, prod, cons>>
  /\ UNCHANGED <<callVars, engineVars, unread, view>>

\* slots.fill(0)
ResetFill ==
  /\ rst.pc = "fill"
  /\ slots' = ZeroSlots
  /\ rst' = NoReset
  /\ UNCHANGED <<header, prod, cons, claims>>
  /\ UNCHANGED <<callVars, engineVars, unread, view>>

\* iterate(): const head=this.getHead()
TraverseLoadHead ==
  /\ cons.pc = "idle"
  /\ rst.by # "consumer"
  /\ cons' = [IdleConsumer EXCEPT !.pc = "iterTail", !.head = getHead(header)]
  /\ UNCHANGED <<header, slots, prod, claims, rst>>
  /\ UNCHANGED <<callVars, engineVars, unread, view>>

\* let cur=this.getTail()
TraverseLoadTail ==
  /\ cons.pc = "iterTail"
  /\ cons' = [cons EXCEPT !.pc = "iterLoop", !.tail = IterFirst(header)]
  /\ UNCHANGED <<header, slots, prod, claims, rst>>
  /\ UNCHANGED <<callVars, engineVars, unread, view>>

\* while(cur!==head){ yield this.getSlot(cur); cur=(cur+1)%RING_SLOTS; }
TraverseLoop ==
  /\ cons.pc = "iterLoop"
  /\ cons' = IF cons.tail # cons.head
             THEN [cons EXCEPT !.tail = NextIndex(cons.tail)]
             ELSE IdleConsumer
  /\ UNCHANGED <<header, slots, prod, claims, rst>>
  /\ UNCHANGED <<callVars, engineVars, unread, view>>

NextRace ==
  \/ \E emb \in ConcEmbeddings : PushCall("worker", emb)
  \/ PushLoadHead("worker")
  \/ PushLoadTail("worker")
  \/ PushCas("worker")
  \/ PushWrite("worker")
  \/ PushGen("worker")
  \/ ReadLoadHead
  \/ ReadLoadTail
  \/ ReadLoadGen
  \/ ReadStoreTail
  \/ \E t \in RaceThreads : ResetCall(t)
  \/ ResetStore
  \/ ResetFill
  \/ TraverseLoadHead
  \/ TraverseLoadTail
  \/ TraverseLoop

SpecRace == InitConc /\ [][NextRace]_vars

(* ------------------------------------------------------------------ *)
(* SpecSpsc: the worker pushing with pushEmbedding while the consumer   *)
(* thread calls readNext, and nothing else.                             *)
(* ------------------------------------------------------------------ *)
NextSpsc ==
  \/ \E emb \in ConcEmbeddings : PushCall("worker", emb)
  \/ PushLoadHead("worker")
  \/ PushLoadTail("worker")
  \/ PushCas("worker")
  \/ PushWrite("worker")
  \/ PushGen("worker")
  \/ ReadLoadHead
  \/ ReadLoadTail
  \/ ReadLoadGen
  \/ ReadStoreTail

SpecSpsc == InitConc /\ [][NextSpsc]_vars

(* ================================================================== *)
(* NeuralMindService: the arena operations                              *)
(* ================================================================== *)
\* getFacet(idx) does not throw
ValidFacet(idx) == ~(idx < 0 \/ idx >= NUM_FACETS)

\* view.set(src) on facetViews[i], seen through mindView m
ViewSet(m, i, src) ==
  [j \in DOMAIN m |->
     IF j >= FacetOffset(i) /\ j < FacetOffset(i) + FACET_SIZE
     THEN src[j - FacetOffset(i) + 1]
     ELSE m[j]]

\* a write that stores before it validates the index (clamped into the arena)
writeFacetUnchecked(idx, src) ==
  /\ last' = "writeFacet"
  /\ args' = [CallArgs(idx) EXCEPT !.vec = src]
  /\ UNCHANGED <<ringVars, routerVars, monVars, lastSnapshot, applied>>
  /\ IF Len(src) # FACET_SIZE
     THEN /\ ret' = Throw("Source must be FACET_SIZE")
          /\ UNCHANGED mindView
     ELSE IF ~ValidFacet(idx)
     THEN /\ ret' = Throw("Invalid facet")
          /\ mindView' = ViewSet(mindView, 0, src)
     ELSE /\ ret' = RetVoid
          /\ mindView' = ViewSet(mindView, idx, src)

\* writeFacet(idx, src)
writeFacet(idx, src) ==
  /\ last' = "writeFacet"
  /\ args' = [CallArgs(idx) EXCEPT !.vec = src]
  /\ UNCHANGED <<ringVars, routerVars, monVars, lastSnapshot, applied>>
  /\ IF Len(src) # FACET_SIZE
     THEN /\ ret' = Throw("Source must be FACET_SIZE")
          /\ UNCHANGED mindView
     ELSE IF ~ValidFacet(idx)
     THEN /\ ret' = Throw("Invalid facet")
          /\ UNCHANGED mindView
     ELSE /\ ret' = RetVoid
          /\ mindView' = ViewSet(mindView, idx, src)

\* the loop of applyGradient: the new target and snapshot of one facet
GradientTarget(target, snap, delta, lr, mom) ==
  [k \in 1..FACET_SIZE |->
     LET prev == target[k] - snap[k]
     IN target[k] + (lr * delta[k] + mom * prev)]

\* the element values the arena operations are explored with
InMindRange(v) == \A k \in 1..Len(v) : v[k] >= 0 /\ v[k] <= MindMax

\* applyGradient(facet, delta, lr, mom)
applyGradient(facet, delta, lr, mom) ==
  /\ last' = "applyGradient"
  /\ args' = [CallArgs(facet) EXCEPT !.vec = delta, !.lr = lr, !.mom = mom]
  /\ UNCHANGED <<ringVars, routerVars, monVars>>
  /\ IF Len(delta) # FACET_SIZE
     THEN /\ ret' = Throw("Delta must be FACET_SIZE")
          /\ UNCHANGED mindVars
     ELSE IF ~ValidFacet(facet)
     THEN /\ ret' = Throw("Invalid facet")
          /\ UNCHANGED mindVars
     ELSE LET t == GradientTarget(FacetView(mindView, facet), lastSnapshot[facet],
                                  delta, lr, mom)
          IN /\ InMindRange(t)
             /\ ret' = RetVoid
             /\ mindView' = ViewSet(mindView, facet, t)
             /\ lastSnapshot' = [lastSnapshot EXCEPT ![facet] = t]
             /\ applied' = [applied EXCEPT ![facet] =
                               [k \in 1..FACET_SIZE |-> t[k] - FacetView(mindView, facet)[k]]]

\* reset() of the arena
mindReset ==
  /\ last' = "mindReset"
  /\ args' = NoArgs
  /\ UNCHANGED <<ringVars, routerVars, monVars>>
  /\ ret' = RetVoid
  /\ mindView' = [j \in DOMAIN mindView |-> 0]
  /\ lastSnapshot' = [i \in DOMAIN lastSnapshot |-> ZeroVec]
  /\ applied' = [i \in DOMAIN applied |-> ZeroVec]

\* resetFacet(idx)
resetFacet(idx) ==
  /\ last' = "resetFacet"
  /\ args' = CallArgs(idx)
  /\ UNCHANGED <<ringVars, routerVars, monVars>>
  /\ IF ~ValidFacet(idx)
     THEN /\ ret' = Throw("Invalid facet")
          /\ UNCHANGED mindVars
     ELSE /\ ret' = RetVoid
          /\ mindView' = ViewSet(mindView, idx, ZeroVec)
          /\ lastSnapshot' = [lastSnapshot EXCEPT ![idx] = ZeroVec]
          /\ applied' = [applied EXCEPT ![idx] = ZeroVec]

\* a vector with v at element k and 0 elsewhere
Axis(k, v) == [i \in 1..FACET_SIZE |-> IF i = k THEN v ELSE 0]

\* arguments of the arena calls: two neighbouring facets and the indices just
\* outside [0, NUM_FACETS); vectors of the right and of a wrong length
MindTargets == {-1, 0, 1, NUM_FACETS}

MindVectors == {Axis(1, 1), Vec(FACET_SIZE + 1, 1)}

\* deltas handed to applyGradient
GradVectors == {Axis(1, 1), ZeroVec, Vec(FACET_SIZE + 1, 1)}

Momenta == {0, 1}

NextMind ==
  \/ \E idx \in MindTargets, src \in MindVectors : writeFacet(idx, src)
  \/ \E facet \in MindTargets, delta \in GradVectors, mom \in Momenta :
        applyGradient(facet, delta, 1, mom)
  \/ mindReset
  \/ \E idx \in MindTargets : resetFacet(idx)

SpecMind == Init /\ [][NextMind]_vars

(* ================================================================== *)
(* PrometheusService: the threshold monitor                             *)
(* ================================================================== *)
\* sum of a[k]*b[k]
RECURSIVE DotFrom(_, _, _)
DotFrom(a, b, k) == IF k > Len(a) THEN 0 ELSE a[k] * b[k] + DotFrom(a, b, k + 1)

Dot(a, b) == DotFrom(a, b, 1)

\* Math.sqrt, on the perfect squares the explored vectors produce
Sqrt(x) == CHOOSE r \in 0..x : r * r = x

\* cosineSimilarity(a, b) for vectors of FACET_SIZE floats
cosineSimilarity(a, b) ==
  LET denom == Sqrt(Dot(a, a) * Dot(b, b))
  IN IF denom = 0 THEN Rat(0, 1) ELSE Rat(Dot(a, b), denom)

\* the handlers that can be registered; handler 2 throws whenever it is called
Handlers == {1, 2}

HandlerThrows(fn) == fn = 2

\* position of the entry of facet f in the Map thresholds, 0 when it has none
CfgIndex(ths, f) ==
  IF \E k \in 1..Len(ths) : ths[k].facet = f
  THEN CHOOSE k \in 1..Len(ths) : ths[k].facet = f
  ELSE 0

\* thresholds.set(cfg.facet, cfg): a new key goes last, an old key keeps its place
CfgSet(ths, cfg) ==
  IF CfgIndex(ths, cfg.facet) = 0 THEN Append(ths, cfg)
  ELSE [ths EXCEPT ![CfgIndex(ths, cfg.facet)] = cfg]

\* this.handlers.get(facet) || []
HandlersOf(hs, f) == IF f \in DOMAIN hs THEN hs[f] ELSE <<>>

\* a fire without the try/catch: the first handler that throws ends the loop
\* and the exception leaves fire
fireNoCatch(h, f) ==
  LET stop == IF \E i \in 1..Len(h) : HandlerThrows(h[i])
              THEN CHOOSE i \in 1..Len(h) :
                     HandlerThrows(h[i]) /\ \A j \in 1..(i - 1) : ~HandlerThrows(h[j])
              ELSE Len(h)
  IN [calls |-> [i \in 1..stop |-> [facet |-> f, handler |-> h[i]]],
      error |-> IF \E i \in 1..Len(h) : HandlerThrows(h[i]) THEN "handler error" ELSE ""]

\* fire(intr) over the handlers h of facet f: the invocations it makes, in
\* order, and the exception that leaves it (none: each call is in a try/catch)
fire(h, f) ==
  [calls |-> [i \in 1..Len(h) |-> [facet |-> f, handler |-> h[i]]], error |-> ""]

\* an adapt that stores the moved threshold without clamping it
adaptedNoClamp(cfg, observed) ==
  [cfg EXCEPT !.threshold = RatSub(cfg.threshold,
                                   RatMul(cfg.learningRate, RatSub(cfg.threshold, observed))),
              !.adapts = @ + 1]

\* an adapt that adds the update: the threshold moves away from the observation
adaptedAway(cfg, observed) ==
  LET upd == RatMul(cfg.learningRate, RatSub(cfg.threshold, observed))
      newThr == RatSub(cfg.threshold, RatSub(Rat(0, 1), upd))
  IN [cfg EXCEPT !.threshold = RatMax(Rat(1, 2), RatMin(Rat(19, 20), newThr)),
                 !.adapts = @ + 1]

\* the body of adapt(facet, observed) on the entry cfg of the facet
adapted(cfg, observed) ==
  LET err == RatSub(cfg.threshold, observed)
      upd == RatMul(cfg.learningRate, err)
      newThr == RatSub(cfg.threshold, upd)
  IN [cfg EXCEPT !.threshold = RatMax(Rat(1, 2), RatMin(Rat(19, 20), newThr)),
                 !.adapts = @ + 1]

\* the for..of loop of check() from the k-th entry of thresholds on; st holds
\* the monitor's maps, the invocations made and the exception that ended the pass
RECURSIVE checkLoop(_, _, _, _)
checkLoop(k, st, m, hs) ==
  IF k > Len(st.thresholds) \/ st.error # "" THEN st
  ELSE LET cfg == st.thresholds[k]
           f == cfg.facet
       IN IF ~ValidFacet(f) THEN [st EXCEPT !.error = "Invalid facet"]
          ELSE LET curr == FacetView(m, f)
                   sim == cosineSimilarity(curr, st.lastStates[f])
               IN IF RatLess(sim, cfg.threshold)
                  THEN LET fr == fire(HandlersOf(hs, f), f)
                           intr == [facet |-> f, similarity |-> sim,
                                    delta |-> [i \in 1..FACET_SIZE |->
                                                 curr[i] - st.lastStates[f][i]]]
                       IN IF fr.error # ""
                          THEN [st EXCEPT !.calls = @ \o fr.calls, !.error = fr.error,
                                          !.fired = Append(@, intr)]
                          ELSE checkLoop(k + 1,
                                 [st EXCEPT !.calls = @ \o fr.calls,
                                            !.fired = Append(@, intr),
                                            !.lastStates[f] = curr,
                                            !.thresholds[k] = adapted(cfg, sim)],
                                 m, hs)
                  ELSE checkLoop(k + 1, st, m, hs)

\* the k-th entry of thresholds is reached by a pass and found below threshold
FiresAt(k) ==
  /\ \A j \in 1..k : ValidFacet(thresholds[j].facet)
  /\ RatLess(cosineSimilarity(FacetView(mindView, thresholds[k].facet),
                              lastStates[thresholds[k].facet]),
             thresholds[k].threshold)

\* one pass of check(), called directly or by the interval timer
checkPass(op) ==
  LET st == checkLoop(1, [thresholds |-> thresholds, lastStates |-> lastStates,
                          calls |-> <<>>, fired |-> <<>>, error |-> ""],
                      mindView, handlers)
  IN /\ \A k \in 1..Len(thresholds) : FiresAt(k) => thresholds[k].adapts < MaxAdapts
     /\ last' = op
     /\ args' = NoArgs
     /\ thresholds' = st.thresholds
     /\ lastStates' = st.lastStates
     /\ calls' = st.calls
     /\ fired' = st.fired
     /\ ret' = IF st.error = "" THEN RetVoid ELSE Throw(st.error)
     /\ UNCHANGED <<ringVars, routerVars, mindVars, handlers, monitoring, intervalId, timers>>

\* check()
check == checkPass("check")

\* the callback of setInterval(()=>this.check(), intervalMs)
intervalCallback ==
  /\ timers # {}
  /\ checkPass("intervalCallback")

\* adapt(facet, observed)
adapt(facet, observed) ==
  LET k == CfgIndex(thresholds, facet)
  IN /\ k # 0 => thresholds[k].adapts < MaxAdapts
     /\ last' = "adapt"
     /\ args' = [CallArgs(facet) EXCEPT !.observed = observed]
     /\ ret' = RetVoid
     /\ thresholds' = IF k = 0 THEN thresholds
                      ELSE [thresholds EXCEPT ![k] = adapted(thresholds[k], observed)]
     /\ UNCHANGED <<ringVars, routerVars, mindVars, lastStates, handlers, monitoring, intervalId,
                    timers, calls, fired>>

\* onInterrupt(facet, fn): this.handlers.get(facet)?.push(fn)
onInterrupt(facet, fn) ==
  /\ Len(HandlersOf(handlers, facet)) < MaxHandlers
  /\ last' = "onInterrupt"
  /\ args' = [CallArgs(facet) EXCEPT !.handler = fn]
  /\ ret' = RetVoid
  /\ handlers' = IF facet \in DOMAIN handlers
                 THEN [handlers EXCEPT ![facet] = Append(@, fn)]
                 ELSE handlers
  /\ UNCHANGED <<ringVars, routerVars, mindVars, thresholds, lastStates, monitoring, intervalId,
                 timers, calls, fired>>

\* setThreshold(cfg)
setThreshold(cfg) ==
  /\ last' = "setThreshold"
  /\ args' = CallArgs(cfg.facet)
  /\ thresholds' = CfgSet(thresholds, cfg)
  /\ IF cfg.facet \in DOMAIN lastStates
     THEN /\ ret' = RetVoid
          /\ UNCHANGED lastStates
     ELSE /\ lastStates' = [f \in DOMAIN lastStates \cup {cfg.facet} |->
                              IF f # cfg.facet THEN lastStates[f]
                              ELSE IF ValidFacet(f) THEN FacetView(mindView, f)
                              ELSE ZeroVec]
          /\ ret' = IF ValidFacet(cfg.facet) THEN RetVoid ELSE Throw("Invalid facet")
  /\ UNCHANGED <<ringVars, routerVars, mindVars, handlers, monitoring, intervalId, timers,
                 calls, fired>>

\* a start that does not test the monitoring flag
startUnguarded ==
  /\ intervalId < MaxTimers
  /\ last' = "start"
  /\ args' = NoArgs
  /\ ret' = RetVoid
  /\ monitoring' = TRUE
  /\ intervalId' = intervalId + 1
  /\ timers' = timers \cup {intervalId + 1}
  /\ UNCHANGED <<ringVars, routerVars, mindVars, thresholds, lastStates, handlers, calls, fired>>

\* start(intervalMs): setInterval returns an id never used before
start ==
  /\ monitoring \/ intervalId < MaxTimers
  /\ last' = "start"
  /\ args' = NoArgs
  /\ ret' = RetVoid
  /\ IF monitoring
     THEN UNCHANGED <<monitoring, intervalId, timers>>
     ELSE /\ monitoring' = TRUE
          /\ intervalId' = intervalId + 1
          /\ timers' = timers \cup {intervalId + 1}
  /\ UNCHANGED <<ringVars, routerVars, mindVars, thresholds, lastStates, handlers, calls, fired>>

\* stop(): clearInterval(this.intervalId)
stop ==
  /\ last' = "stop"
  /\ args' = NoArgs
  /\ ret' = RetVoid
  /\ IF ~monitoring
     THEN UNCHANGED <<monitoring, timers>>
     ELSE /\ monitoring' = FALSE
          /\ timers' = timers \ {intervalId}
  /\ UNCHANGED <<ringVars, routerVars, mindVars, thresholds, lastStates, handlers,
                 intervalId, calls, fired>>

(* ------------------------------------------------------------------ *)
(* The monitor with its handlers                                        *)
(* ------------------------------------------------------------------ *)
\* the facets the monitor calls are explored with: a default one, one that is
\* monitored only after setThreshold, and an index outside the arena
MonFacets == {0, NUM_FACETS - 1, NUM_FACETS}

\* the facets handlers are registered for: a default one and one that is
\* monitored only after setThreshold
HandlerFacets == {0, NUM_FACETS - 1}

\* vectors written to the arena: similarity 1 with themselves, 0 with each
\* other and with the zero vector
MonVectors == {Axis(1, 1), Axis(2, 1)}

NextMon ==
  \/ \E src \in MonVectors : writeFacet(0, src)
  \/ \E facet \in HandlerFacets, fn \in Handlers : onInterrupt(facet, fn)
  \/ \E facet \in MonFacets : setThreshold(defaultCfg(facet))
  \/ check

SpecMon == Init /\ [][NextMon]_vars

(* ------------------------------------------------------------------ *)
(* The monitor with its timer                                           *)
(* ------------------------------------------------------------------ *)
NextTimer ==
  \/ start
  \/ stop
  \/ intervalCallback
  \/ \E idx \in {0, 1}, src \in MonVectors : writeFacet(idx, src)

SpecTimer == Init /\ [][NextTimer]_vars

(* ------------------------------------------------------------------ *)
(* The monitor with its thresholds                                      *)
(* ------------------------------------------------------------------ *)
\* configurations installed with setThreshold: thresholds below, at the ends
\* of and above the clamp range; a learning rate of 0.01 and of 0
CfgThresholds == {Rat(1, 5), Rat(1, 2), Rat(19, 20), Rat(2, 1)}

CfgRates == {Rat(1, 100), Rat(0, 1)}

Cfg(f, thr, rate) == [defaultCfg(f) EXCEPT !.threshold = thr, !.learningRate = rate]

\* observed similarities handed to adapt: inside [-1, 1] and far outside
Observed == {Rat(-100, 1), Rat(0, 1), Rat(3, 5), Rat(1, 1), Rat(100, 1)}

NextAdapt ==
  \/ \E thr \in CfgThresholds, rate \in CfgRates : setThreshold(Cfg(0, thr, rate))
  \/ \E facet \in {0, NUM_FACETS - 1}, observed \in Observed : adapt(facet, observed)
  \/ check

SpecAdapt == Init /\ [][NextAdapt]_vars

(* ================================================================== *)
(* NeuralRouterService: the tool selector                               *)
(* ================================================================== *)
\* hit count up to which updateTool is explored
MaxHits == 1

\* recordAccuracy calls explored after one initializeToolMap
MaxRecords == 2

\* a - (-b)
RatAdd(a, b) == RatSub(a, Rat(-b.n, b.d))

\* an element of the list handed to initializeToolMap; a hitCount or accuracy
\* the caller leaves out is undefined there, which `||0` turns into 0
ToolSeed(id, c, hits, acc) ==
  [toolId |-> id, centroid |-> c, hitCount |-> hits, accuracy |-> acc]

NewTool(id, c) == ToolSeed(id, c, 0, Rat(0, 1))

\* no array is held
NoVector == [kind |-> "none", data |-> <<>>]

\* the caller's seed arrays after tool i's centroid array has been stored to
\* and holds c: a seed array that is that same array holds c as well
Stored(sd, sh, i, c) == [k \in 1..Len(sd) |-> IF k = i /\ k \in sh THEN c ELSE sd[k]]

\* what the latest call returned when it returned route results
RetRouted == [kind |-> "routed", index |-> 0, value |-> <<>>, error |-> ""]

\* this.toolMap = tools.map(t => ({...t, centroid:new Float32Array(t.centroid),
\*                                 hitCount:t.hitCount||0, accuracy:t.accuracy||0}))
initializeToolMap(tools) ==
  /\ last' = "initializeToolMap"
  /\ args' = [NoArgs EXCEPT !.tools = tools]
  /\ ret' = RetVoid
  /\ toolMap' = [k \in 1..Len(tools) |->
                   [toolId |-> tools[k].toolId, centroid |-> tools[k].centroid,
                    hitCount |-> tools[k].hitCount, accuracy |-> tools[k].accuracy]]
  /\ seeds' = [k \in 1..Len(tools) |-> tools[k].centroid]
  /\ shared' = {}
  /\ routed' = <<>>
  /\ intentVector' = NoVector
  /\ recorded' = 0
  /\ UNCHANGED <<ringVars, mindVars, monVars, operand>>

\* const intent = this.mind.getFacet(FacetType.INTENT)
intent == FacetView(mindView, 0)

\* the floats read through a held array: its own, or the arena's when the
\* array is the view of the intent facet
Contents(v) == IF v.kind = "view" THEN intent ELSE v.data

\* a result that hands out the facet view itself
intentView == [kind |-> "view", data |-> <<>>]

\* const intentCopy = new Float32Array(FACET_SIZE); intentCopy.set(intent)
intentCopy == [kind |-> "own", data |-> intent]

\* the similarity of every tool's centroid to the intent facet
Sims(tm) == [i \in 1..Len(tm) |-> cosineSimilarity(intent, tm[i].centroid)]

\* cosineSimilarity throws for one of the stored centroids
SimThrows(tm) == \E i \in 1..Len(tm) : Len(tm[i].centroid) # FACET_SIZE

\* the loop of route() over tools 1..k: if(sim>bestSim){ bestSim=sim; best=i; },
\* starting from bestSim = -Infinity
RECURSIVE Best(_, _)
Best(sims, k) ==
  IF k = 1 THEN 1
  ELSE LET b == Best(sims, k - 1)
       IN IF RatLess(sims[b], sims[k]) THEN k ELSE b

Result(tm, sims, i) == [toolId |-> tm[i].toolId, confidence |-> sims[i]]

\* route() without its first line
routeUnguarded ==
  /\ last' = "route"
  /\ args' = NoArgs
  /\ IF SimThrows(toolMap) \/ Len(toolMap) = 0
     THEN ret' = Throw("Vectors must be") /\ routed' = <<>> /\ intentVector' = NoVector
     ELSE /\ ret' = RetRouted
          /\ routed' = <<Result(toolMap, Sims(toolMap), Best(Sims(toolMap), Len(toolMap)))>>
          /\ intentVector' = intentCopy
  /\ UNCHANGED <<ringVars, mindVars, monVars, toolMap, recorded, operand, seeds, shared>>

route ==
  /\ last' = "route"
  /\ args' = NoArgs
  /\ IF Len(toolMap) = 0
     THEN ret' = Throw("Tool map not initialized") /\ routed' = <<>> /\ intentVector' = NoVector
     ELSE IF SimThrows(toolMap)
     THEN ret' = Throw("Vectors must be") /\ routed' = <<>> /\ intentVector' = NoVector
     ELSE /\ ret' = RetRouted
          /\ routed' = <<Result(toolMap, Sims(toolMap), Best(Sims(toolMap), Len(toolMap)))>>
          /\ intentVector' = intentCopy
  /\ UNCHANGED <<ringVars, mindVars, monVars, toolMap, recorded, operand, seeds, shared>>

\* cand.sort((a,b)=>b.sim-a.sim) on the indices 1..k: the sort is stable, so an
\* index goes behind every earlier index whose similarity is not smaller
RECURSIVE Sorted(_, _)
Sorted(sims, k) ==
  IF k = 0 THEN <<>>
  ELSE LET s == Sorted(sims, k - 1)
           ahead == {j \in 1..Len(s) : ~RatLess(sims[s[j]], sims[k])}
           p == IF ahead = {} THEN 0 ELSE CHOOSE j \in ahead : \A i \in ahead : i <= j
       IN SubSeq(s, 1, p) \o <<k>> \o SubSeq(s, p + 1, Len(s))

\* cand.slice(0,k): a negative k counts from the end
Slice(s, k) ==
  IF k >= 0 THEN SubSeq(s, 1, IF k < Len(s) THEN k ELSE Len(s))
  ELSE SubSeq(s, 1, Len(s) + k)

routeTopK(k) ==
  /\ last' = "routeTopK"
  /\ args' = [NoArgs EXCEPT !.k = k]
  /\ IF Len(toolMap) = 0
     THEN ret' = Throw("Tool map not initialized") /\ routed' = <<>> /\ intentVector' = NoVector
     ELSE IF SimThrows(toolMap)
     THEN ret' = Throw("Vectors must be") /\ routed' = <<>> /\ intentVector' = NoVector
     ELSE /\ ret' = RetRouted
          /\ intentVector' = intentCopy
          /\ routed' = LET sims == Sims(toolMap)
                           cand == Slice(Sorted(sims, Len(toolMap)), k)
                       IN [j \in 1..Len(cand) |-> Result(toolMap, sims, cand[j])]
  /\ UNCHANGED <<ringVars, mindVars, monVars, toolMap, recorded, operand, seeds, shared>>

\* this.toolMap.find(t=>t.toolId===toolId): the first tool with that id, 0 for none
FindTool(tm, id) ==
  IF \E i \in 1..Len(tm) : tm[i].toolId = id
  THEN CHOOSE i \in 1..Len(tm) :
         tm[i].toolId = id /\ \A j \in 1..(i - 1) : tm[j].toolId # id
  ELSE 0

\* normalize(v): the norm of the first FACET_SIZE floats divides them when it is
\* positive (explored vectors have a whole norm that divides their elements);
\* a v shorter than FACET_SIZE makes the norm NaN, and NaN > 0 is false
normalize(v) ==
  IF Len(v) < FACET_SIZE THEN v
  ELSE LET head == SubSeq(v, 1, FACET_SIZE)
           norm == Sqrt(Dot(head, head))
       IN IF norm > 0
          THEN [i \in 1..Len(v) |-> IF i <= FACET_SIZE THEN v[i] \div norm ELSE v[i]]
          ELSE v

\* for(i<FACET_SIZE){ delta = feedback[i]-c[i]; c[i] += lr*delta; } on a centroid
\* of at least FACET_SIZE floats
Moved(c, feedback, lr) ==
  [i \in 1..Len(c) |-> IF i <= FACET_SIZE THEN c[i] + lr * (feedback[i] - c[i]) ELSE c[i]]

\* updateTool that leaves the hit count alone
updateToolNoHit(toolId, feedback, lr) ==
  LET i == FindTool(toolMap, toolId)
  IN /\ last' = "updateTool"
     /\ args' = [NoArgs EXCEPT !.toolId = toolId, !.vec = feedback, !.lr = lr]
     /\ routed' = <<>>
     /\ IF i = 0
        THEN ret' = RetVoid /\ UNCHANGED toolMap
        ELSE IF Len(feedback) # FACET_SIZE
        THEN ret' = Throw("Feedback must be") /\ UNCHANGED toolMap
        ELSE /\ ret' = RetVoid
             /\ toolMap' = [toolMap EXCEPT
                              ![i].centroid = normalize(Moved(@, feedback, lr))]
     /\ intentVector' = NoVector
     /\ seeds' = Stored(seeds, shared, i, IF i = 0 THEN <<>> ELSE toolMap'[i].centroid)
     /\ UNCHANGED <<ringVars, mindVars, monVars, recorded, operand, shared>>

\* updateTool that checks the feedback's length after the loop
updateToolLateCheck(toolId, feedback, lr) ==
  LET i == FindTool(toolMap, toolId)
  IN /\ last' = "updateTool"
     /\ args' = [NoArgs EXCEPT !.toolId = toolId, !.vec = feedback, !.lr = lr]
     /\ routed' = <<>>
     /\ IF i = 0
        THEN ret' = RetVoid /\ UNCHANGED toolMap
        ELSE /\ toolMap[i].hitCount < MaxHits
             /\ ret' = IF Len(feedback) # FACET_SIZE
                       THEN Throw("Feedback must be") ELSE RetVoid
             /\ toolMap' = [toolMap EXCEPT
                              ![i].centroid = normalize(Moved(@, feedback, lr)),
                              ![i].hitCount = @ + 1]
     /\ intentVector' = NoVector
     /\ seeds' = Stored(seeds, shared, i, IF i = 0 THEN <<>> ELSE toolMap'[i].centroid)
     /\ UNCHANGED <<ringVars, mindVars, monVars, recorded, operand, shared>>

updateTool(toolId, feedback, lr) ==
  LET i == FindTool(toolMap, toolId)
  IN /\ last' = "updateTool"
     /\ args' = [NoArgs EXCEPT !.toolId = toolId, !.vec = feedback, !.lr = lr]
     /\ routed' = <<>>
     /\ IF i = 0
        THEN ret' = RetVoid /\ UNCHANGED toolMap
        ELSE IF Len(feedback) # FACET_SIZE
        THEN ret' = Throw("Feedback must be") /\ UNCHANGED toolMap
        ELSE /\ toolMap[i].hitCount < MaxHits
             /\ ret' = RetVoid
             /\ toolMap' = [toolMap EXCEPT
                              ![i].centroid = normalize(Moved(@, feedback, lr)),
                              ![i].hitCount = @ + 1]
     /\ intentVector' = NoVector
     /\ seeds' = Stored(seeds, shared, i, IF i = 0 THEN <<>> ELSE toolMap'[i].centroid)
     /\ UNCHANGED <<ringVars, mindVars, monVars, recorded, operand, shared>>

\* const alpha=0.1
alpha == Rat(1, 10)

\* alpha*(correct?1:0)+(1-alpha)*accuracy
Averaged(accuracy, correct) ==
  RatAdd(RatMul(alpha, IF correct THEN Rat(1, 1) ELSE Rat(0, 1)),
         RatMul(RatSub(Rat(1, 1), alpha), accuracy))

recordAccuracy(toolId, correct) ==
  LET i == FindTool(toolMap, toolId)
  IN /\ last' = "recordAccuracy"
     /\ args' = [NoArgs EXCEPT !.toolId = toolId, !.correct = correct]
     /\ ret' = RetVoid
     /\ routed' = <<>>
     /\ IF i = 0
        THEN UNCHANGED <<toolMap, recorded>>
        ELSE /\ recorded < MaxRecords
             /\ recorded' = recorded + 1
             /\ toolMap' = [toolMap EXCEPT ![i].accuracy = Averaged(@, correct)]
     /\ intentVector' = NoVector
     /\ UNCHANGED <<ringVars, mindVars, monVars, operand, seeds, shared>>

\* what the latest call returned when it returned the tool at index i of the
\* tool map (undefined for i = 0), or the first i tools
RetStats(i) == [kind |-> "stats", index |-> i, value |-> <<>>, error |-> ""]

\* getToolStats(toolId){ return this.toolMap.find(t=>t.toolId===toolId); }
getToolStats(toolId) ==
  /\ last' = "getToolStats"
  /\ args' = [NoArgs EXCEPT !.toolId = toolId]
  /\ ret' = RetStats(FindTool(toolMap, toolId))
  /\ routed' = <<>>
  /\ intentVector' = NoVector
  /\ UNCHANGED <<ringVars, mindVars, monVars, toolMap, recorded, operand, seeds, shared>>

\* getAllToolStats(){ return [...this.toolMap]; }
getAllToolStats ==
  /\ last' = "getAllToolStats"
  /\ args' = NoArgs
  /\ ret' = RetStats(Len(toolMap))
  /\ routed' = <<>>
  /\ intentVector' = NoVector
  /\ UNCHANGED <<ringVars, mindVars, monVars, toolMap, recorded, operand, seeds, shared>>

\* a vector of FACET_SIZE + 1 floats
LongAxis(k, v) == Append(Axis(k, v), 0)

\* lists handed to initializeToolMap: none; two tools; four tools where tools 2
\* and 3 are equally similar to an intent along axis 1 and tools 1 and 4 to one
\* along axis 2, with an id used twice; a centroid of a wrong length; an
\* accuracy outside [0, 1]
ToolLists ==
  { <<>>,
    <<NewTool(1, Axis(1, 1)), NewTool(2, Axis(2, 1))>>,
    <<NewTool(1, Axis(2, 1)), NewTool(2, Axis(1, 1)), NewTool(3, Axis(1, 2)),
      NewTool(1, Axis(2, 2))>>,
    <<NewTool(1, Axis(1, 1)), NewTool(2, LongAxis(1, 1))>>,
    <<ToolSeed(1, Axis(1, 1), 0, Rat(5, 1))>> }

\* ids handed to updateTool and recordAccuracy: registered ones and one that is not
RouterIds == {1, 2, 9}

\* feedback handed to updateTool: of the right and of a wrong length
Feedbacks == {Axis(2, 2), LongAxis(1, 2)}

\* k handed to routeTopK
TopKs == {-1, 0, 2, 4, 5}

\* intent vectors written to the arena
Intents == {Axis(1, 1), Axis(2, 1)}

NextRouter ==
  \/ \E tools \in ToolLists : initializeToolMap(tools)
  \/ \E src \in Intents : writeFacet(0, src)
  \/ route
  \/ \E k \in TopKs : routeTopK(k)
  \/ \E toolId \in RouterIds, feedback \in Feedbacks : updateTool(toolId, feedback, 1)
  \/ \E toolId \in RouterIds, correct \in BOOLEAN : recordAccuracy(toolId, correct)
  \/ \E toolId \in RouterIds : getToolStats(toolId)
  \/ getAllToolStats

SpecRouter == Init /\ [][NextRouter]_vars

(* ================================================================== *)
(* SIMDOpsService: the vector operations, called on their own           *)
(* ================================================================== *)
\* what the latest call returned when it returned a number
RetNumber(r) == [kind |-> "number", index |-> 0, value |-> <<r.n, r.d>>, error |-> ""]

\* cosineSimilarity(a, b) as a call: the only operation that checks lengths
callCosineSimilarity(a, b) ==
  /\ last' = "cosineSimilarity"
  /\ args' = [NoArgs EXCEPT !.vec = a, !.vec2 = b]
  /\ ret' = IF Len(a) # FACET_SIZE \/ Len(b) # FACET_SIZE
            THEN Throw("Vectors must be")
            ELSE RetNumber(cosineSimilarity(a, b))
  /\ operand' = a
  /\ UNCHANGED <<ringVars, mindVars, monVars, toolMap, routed, recorded, heldVars>>

\* the floats of a Float32Array v that a loop over i < FACET_SIZE reaches: a
\* store past its end is dropped
Reached(v, i) == i <= FACET_SIZE /\ i <= Len(v)

\* addScaled(target, source, scale), source of at least FACET_SIZE floats
addScaled(target, source, scale) ==
  [i \in 1..Len(target) |->
     IF Reached(target, i) THEN target[i] + source[i] * scale ELSE target[i]]

callAddScaled(target, source, scale) ==
  /\ last' = "addScaled"
  /\ args' = [NoArgs EXCEPT !.vec = target, !.vec2 = source, !.scale = scale]
  /\ ret' = RetVoid
  /\ operand' = addScaled(target, source, scale)
  /\ UNCHANGED <<ringVars, mindVars, monVars, toolMap, routed, recorded, heldVars>>

callNormalize(v) ==
  /\ last' = "normalize"
  /\ args' = [NoArgs EXCEPT !.vec = v]
  /\ ret' = RetVoid
  /\ operand' = normalize(v)
  /\ UNCHANGED <<ringVars, mindVars, monVars, toolMap, routed, recorded, heldVars>>

\* clipGradient(g, max): a g shorter than FACET_SIZE makes the norm NaN, and
\* NaN > max is false (explored vectors have a whole norm that divides max*g[i])
clipGradient(g, max) ==
  IF Len(g) < FACET_SIZE THEN g
  ELSE LET head == SubSeq(g, 1, FACET_SIZE)
           norm == Sqrt(Dot(head, head))
       IN IF norm > max
          THEN [i \in 1..Len(g) |-> IF i <= FACET_SIZE THEN (g[i] * max) \div norm ELSE g[i]]
          ELSE g

callClipGradient(g, max) ==
  /\ last' = "clipGradient"
  /\ args' = [NoArgs EXCEPT !.vec = g, !.scale = max]
  /\ ret' = RetVoid
  /\ operand' = clipGradient(g, max)
  /\ UNCHANGED <<ringVars, mindVars, monVars, toolMap, routed, recorded, heldVars>>

\* v[i] = Math.max(0, v[i]) for i < FACET_SIZE
relu(v) ==
  [i \in 1..Len(v) |-> IF Reached(v, i) /\ v[i] < 0 THEN 0 ELSE v[i]]

callRelu(v) ==
  /\ last' = "relu"
  /\ args' = [NoArgs EXCEPT !.vec = v]
  /\ ret' = RetVoid
  /\ operand' = relu(v)
  /\ UNCHANGED <<ringVars, mindVars, monVars, toolMap, routed, recorded, heldVars>>

\* a vector of len floats with v at element k and 0 elsewhere
AxisOf(len, k, v) == [i \in 1..len |-> IF i = k THEN v ELSE 0]

\* operands handed to the vector operations: Float32Arrays of FACET_SIZE floats,
\* of one less and of one more
OpVectors ==
  {AxisOf(len, k, v) : len \in (FACET_SIZE - 1)..(FACET_SIZE + 1),
                       k \in 1..(FACET_SIZE + 1),
                       v \in (-MaxVal..MaxVal) \ {0}}

\* second operands: of FACET_SIZE floats and of one more
OpSources == {Axis(1, 1), LongAxis(1, 1)}

NextOps ==
  \/ \E a \in OpVectors, b \in OpSources : callCosineSimilarity(a, b)
  \/ \E target \in OpVectors, source \in OpSources, scale \in {-1, 1} :
        callAddScaled(target, source, scale)
  \/ \E v \in OpVectors : callNormalize(v)
  \/ \E g \in OpVectors : callClipGradient(g, 1)
  \/ \E v \in OpVectors : callRelu(v)

SpecOps == Init /\ [][NextOps]_vars

(* ================================================================== *)
(* Claims about the ring buffer, checked under Spec                     *)
(* ================================================================== *)
PushOps == {"push", "pushEmbedding", "pushToolResult"}

\* the latest step was a push that succeeded / that failed with the given message
PushSucceeded ==
  \/ last = "push" /\ ret.kind = "index"
  \/ last \in {"pushEmbedding", "pushToolResult"} /\ messages # <<>>
       /\ messages[1].type \in {"embeddingPushed", "toolResultPushed"}

PushFailedWith(text) ==
  \/ last = "push" /\ ret = Throw(text)
  \/ last \in {"pushEmbedding", "pushToolResult"} /\ messages = <<ErrorMsg(text)>>

PushFailed ==
  \/ last = "push" /\ ret.kind = "throw"
  \/ last \in {"pushEmbedding", "pushToolResult"} /\ messages # <<>>
       /\ messages[1].type = "error"

\* C1: FIFO delivery.  Every vector a readNext call returns is the oldest vector
\* that was pushed successfully and not yet returned: the returned vectors are
\* the pushed vectors in push order, none skipped, duplicated or invented.
C1_FifoDelivery ==
  [][(last' = "readNext" /\ ret'.kind = "view")
       => (pending # <<>> /\ ret'.value = Head(pending))]_vars

\* C2: usable capacity is RING_SLOTS-1.  From a new or reset ring with no reads a
\* push fails with buffer-full exactly when RING_SLOTS-1 vectors have been pushed;
\* in every state a push fails with buffer-full only when (head+1) mod RING_SLOTS
\* equals tail and succeeds only when it does not; the number of pushed and
\* unread vectors never exceeds RING_SLOTS-1.
C2_Capacity ==
  /\ [](Len(pending) <= RING_SLOTS - 1)
  /\ [][(last' \in PushOps) =>
          /\ PushFailedWith("Ring buffer full")' =>
               (header[0] + 1) % RING_SLOTS = header[1]
          /\ PushSucceeded' => (header[0] + 1) % RING_SLOTS # header[1]
          /\ fresh =>
               /\ PushFailedWith("Ring buffer full")' => Len(pending) = RING_SLOTS - 1
               /\ PushSucceeded' => Len(pending) < RING_SLOTS - 1
                                      /\ header'[0] = Len(pending) + 1
       ]_vars

\* the RING_SLOTS-th push on a new ring has just failed with buffer-full
C2_Witness ==
  /\ fresh
  /\ Len(pending) = RING_SLOTS - 1
  /\ PushFailedWith("Ring buffer full")

\* C3: a push that fails (ring full, or wrong vector length) changes neither
\* head, tail, generation nor any slot; a push request to the worker is answered
\* with exactly one message, an error when the push failed, and the worker stays
\* bound so that later requests are processed as before.
C3_FailedPushChangesNothing ==
  [][(last' \in PushOps) =>
       /\ PushFailed' \/ PushSucceeded'
       /\ PushFailed' => /\ header' = header
                         /\ slots' = slots
                         /\ ringHeader' = ringHeader
                         /\ pending' = pending
       /\ last' # "push" => Len(messages') = 1
    ]_vars

\* a worker push has just been rejected because the ring is full
C3_Witness ==
  /\ last = "pushEmbedding"
  /\ messages = <<ErrorMsg("Ring buffer full")>>
  /\ Len(pending) = RING_SLOTS - 1

\* C4: whenever no unread vector is pending, readNext returns null and leaves
\* tail where it is, also after head has wrapped past slot 0.
C4_EmptySignalsNoData ==
  [][(last' = "readNext" /\ pending = <<>>) => (ret' = RetNull /\ header' = header)]_vars

\* C5: after RING_SLOTS-1 pushes with no reads on a new or reset ring isFull()
\* is true, and isFull() is true exactly when the next push would fail with
\* buffer-full.
C5_IsFullMatchesPush ==
  /\ (fresh /\ Len(pending) = RING_SLOTS - 1) => isFull(header)
  /\ isFull(header) <=> servicePush(header, slots, ZeroVec).error = "Ring buffer full"

\* C6: available(), and the available field of the worker's stats message, equal
\* the number of vectors pushed successfully and not yet returned by readNext.
C6_AvailableCountsUnread ==
  /\ available(header) = Len(pending)
  /\ (last = "getStats" /\ messages # <<>>) => messages[1].available = Len(pending)

\* C10: after reset() (or a worker reset answered with resetComplete) head, tail
\* and generation are 0 and every slot is zero, so available() is 0, isFull() is
\* false, and a readNext that follows returns null.
WasReset ==
  \/ last = "reset"
  \/ last = "workerReset" /\ messages = <<Msg("resetComplete")>>

C10_ResetClearsRing ==
  [][/\ WasReset' =>
          /\ header'[0] = 0 /\ header'[1] = 0 /\ header'[2] = 0
          /\ \A i \in SlotIndices : slots'[i] = ZeroVec
          /\ available(header') = 0
          /\ ~isFull(header')
     /\ (WasReset /\ last' = "readNext") => ret' = RetNull /\ header' = header
    ]_vars

\* the worker has just answered a reset request
C10_Witness ==
  /\ last = "workerReset"
  /\ messages = <<Msg("resetComplete")>>
  /\ header[0] = 0 /\ header[1] = 0 /\ header[2] = 0

PushedIndex == IF last = "push" THEN ret.index ELSE messages[1].slotIndex

\* C33: a successful push (push, pushEmbedding or pushToolResult) returns the
\* value head had before the call, stores the vector in exactly that slot, sets
\* head to (old head + 1) mod RING_SLOTS, leaves tail unchanged and adds 1 to
\* generation if and only if the new head is 0; no other step changes
\* generation, except that reset and init set it to 0.
C33_PushAdvancesHead ==
  [][IF last' \in PushOps /\ PushSucceeded'
     THEN /\ PushedIndex' = header[0]
          /\ slots' = [slots EXCEPT ![header[0]] = pending'[Len(pending')]]
          /\ header'[0] = (header[0] + 1) % RING_SLOTS
          /\ header'[1] = header[1]
          /\ header'[2] = header[2] + (IF header'[0] = 0 THEN 1 ELSE 0)
     ELSE IF last' \in {"reset", "workerReset", "init"}
     THEN header'[2] \in {0, header[2]}
     ELSE header'[2] = header[2]
    ]_vars

\* a tool result has been pushed into the last slot: head wrapped to 0 and
\* generation counts the wrap
C33_Witness ==
  /\ last = "pushToolResult"
  /\ PushSucceeded
  /\ PushedIndex = RING_SLOTS - 1
  /\ header[0] = 0
  /\ header[2] = 1

\* the number of readNext calls, out of k, that return a slot when nothing is
\* pushed, starting from header h
RECURSIVE NonNullReads(_, _)
NonNullReads(h, k) ==
  IF k = 0 \/ (h[0] = h[1] /\ h[2] = 0) THEN 0
  ELSE 1 + NonNullReads([h EXCEPT ![1] = (h[1] + 1) % RING_SLOTS], k - 1)

\* C34: from any reachable ring state, if nothing more is pushed, repeated
\* readNext calls return null after at most RING_SLOTS-1 non-null results.
C34_DrainTerminates == NonNullReads(header, RING_SLOTS) <= RING_SLOTS - 1

(* ================================================================== *)
(* Claims about iterate(), checked under SpecIter                       *)
(* ================================================================== *)
\* C9: iterate() yields the slots at indices tail, tail+1, ... up to but not
\* including head (mod RING_SLOTS), in that order, available() of them in all,
\* then ends; no step of it changes head, tail, generation or a slot.
C9_IterateReadOnly ==
  /\ [](gen_it.state \in {"suspended", "done"} =>
          /\ Len(gen_it.yielded) <= gen_it.avail0
          /\ \A k \in 1..Len(gen_it.yielded) :
               gen_it.yielded[k] = (gen_it.tail0 + k - 1) % RING_SLOTS)
  /\ [](gen_it.state = "done" =>
          /\ Len(gen_it.yielded) = gen_it.avail0
          /\ (gen_it.tail0 + Len(gen_it.yielded)) % RING_SLOTS = gen_it.head)
  /\ [][(last' \in {"iterate", "next"}) => (header' = header /\ slots' = slots)]_vars

\* a traversal of a ring whose unread slots wrap past slot 0 has ended
C9_Witness ==
  /\ gen_it.state = "done"
  /\ Len(gen_it.yielded) = RING_SLOTS - 1
  /\ gen_it.tail0 > gen_it.head

(* ================================================================== *)
(* Claims about concurrent threads, checked under SpecConc              *)
(* ================================================================== *)
\* a push claims its slot only in a step in which head equals the value the
\* push loaded and becomes that value plus one (mod RING_SLOTS)
ClaimedOnlyByCas ==
  [][\A p \in Producers :
       (Claimed(prod[p])' /\ ~Claimed(prod[p])) =>
          /\ header[0] = prod[p].head
          /\ header'[0] = (prod[p].head + 1) % RING_SLOTS
          /\ prod'[p].head = prod[p].head]_vars

TwoWritersOnOneSlot ==
  /\ Claimed(prod["main"])
  /\ Claimed(prod["worker"])
  /\ prod["main"].head = prod["worker"].head

InitSucceeded == last = "init" /\ (\A i \in 1..Len(messages) : messages[i].type # "error")

\* C11: a successful init request produces exactly one response message, of
\* type initialized, and leaves the ring with head = tail = generation = 0.
C11_InitAnsweredOnce ==
  InitSucceeded =>
    /\ messages = <<Msg("initialized")>>
    /\ ringHeader
    /\ header[0] = 0 /\ header[1] = 0 /\ header[2] = 0

RingRequests == {"pushToolResult", "pushEmbedding", "getStats", "workerReset"}

\* C12: every ring request handled before a successful init (pushToolResult,
\* pushEmbedding, getStats, reset) is answered with exactly one error response;
\* none is dropped without a response.
C12_RingRequestBeforeInitIsError ==
  [][(~ringHeader /\ last' \in RingRequests) =>
       (Len(messages') = 1 /\ messages'[1].type = "error")]_vars

\* C13: a request of a type other than init, pushToolResult, pushEmbedding,
\* getStats, reset is answered with exactly one error response whose message is
\* "Unknown message <type>", and leaves head, tail, generation and the slots
\* unchanged.
C13_UnknownRequest ==
  [][(last' \in UnknownTypes) =>
       /\ messages' = <<ErrorMsg("Unknown message " \o last')>>
       /\ header' = header
       /\ slots' = slots]_vars

\* an unknown request has been answered while the ring holds unread vectors
C13_Witness ==
  /\ last = "ping"
  /\ ringHeader
  /\ Len(pending) = 2
  /\ messages = <<ErrorMsg("Unknown message ping")>>

\* C36: an init request whose ring handle is missing or too small is answered
\* with an error response and leaves the previously bound ring untouched: the
\* worker's views stay bound, and head, tail, generation and slots are unchanged.
C36_FailedInitKeepsRing ==
  [][(last' = "init" /\ args'.handle \in {"missing", "small"}) =>
       /\ Len(messages') = 1
       /\ messages'[1].type = "error"
       /\ ringHeader' = ringHeader
       /\ header' = header
       /\ slots' = slots
    ]_vars

\* an init with a buffer that is too small has been refused while the worker is
\* bound to a ring that holds a pushed vector
C36_Witness ==
  /\ last = "init"
  /\ args.handle = "small"
  /\ messages = <<ErrorMsg("Ring buffer too small")>>
  /\ ringHeader
  /\ header[0] = 1
  /\ slots[0] # ZeroVec

(* ================================================================== *)
(* Claims about the monitor, checked under SpecMon, SpecTimer, SpecAdapt *)
(* ================================================================== *)
\* the invocations fire makes for the handlers h of facet f
Invocations(h, f) == [i \in 1..Len(h) |-> [facet |-> f, handler |-> h[i]]]

\* C14: when check() finds a facet below its threshold, every handler registered
\* for the facet is invoked exactly once, in registration order; a handler
\* that throws does not leave check() and prevents neither the later handlers,
\* nor the update of the last observed vector, nor the adaptation step, nor the
\* check of the remaining monitored facets in the same pass.
C14_HandlersAllRun ==
  [][(last' = "check") =>
       /\ \A k \in 1..Len(thresholds) :
            FiresAt(k) =>
              LET f == thresholds[k].facet
                  sim == cosineSimilarity(FacetView(mindView, f), lastStates[f])
              IN /\ SelectSeq(calls', LAMBDA c : c.facet = f)
                      = Invocations(HandlersOf(handlers, f), f)
                 /\ lastStates'[f] = FacetView(mindView, f)
                 /\ thresholds'[k] = adapted(thresholds[k], sim)
       /\ (\A k \in 1..Len(thresholds) : ValidFacet(thresholds[k].facet)) => ret' = RetVoid
    ]_vars

\* a pass has called a throwing handler and then a second handler of facet 0,
\* and has gone on to adapt the facets after it
C14_Witness ==
  /\ last = "check"
  /\ ret = RetVoid
  /\ calls = <<[facet |-> 0, handler |-> 2], [facet |-> 0, handler |-> 1]>>
  /\ Len(thresholds) = 3
  /\ \A k \in 1..3 : thresholds[k].adapts = 1

\* C15: at most one polling timer is active and the monitoring flag is true
\* exactly when a timer is active; start while running creates no second timer,
\* stop while stopped does nothing, no check pass is triggered by the timer
\* between a stop and the next start, and after a start polling is on again.
C15_StartStopIdempotent ==
  /\ [](Cardinality(timers) <= 1 /\ (monitoring <=> timers # {})
          /\ (monitoring => timers = {intervalId}))
  /\ [][/\ (last' = "start" /\ monitoring) => UNCHANGED <<monitoring, intervalId, timers>>
        /\ (last' = "start") => (monitoring' /\ timers' # {})
        /\ (last' = "stop" /\ ~monitoring) => UNCHANGED <<monitoring, intervalId, timers>>
        /\ (last' = "stop") => (~monitoring' /\ timers' = {})
        /\ (last' = "intervalCallback") => monitoring
       ]_vars

\* the timer of a second start has triggered a pass
C15_Witness ==
  /\ last = "intervalCallback"
  /\ monitoring
  /\ intervalId = 2
  /\ timers = {2}

\* C16: after any adapt(facet, observed) on a monitored facet, whatever the
\* observed similarity and whatever configuration setThreshold installed, the
\* stored threshold lies in [0.5, 0.95].
C16_AdaptClamps ==
  [][(last' = "adapt" /\ CfgIndex(thresholds, args'.facet) # 0) =>
       LET thr == thresholds'[CfgIndex(thresholds, args'.facet)].threshold
       IN ~RatLess(thr, Rat(1, 2)) /\ ~RatLess(Rat(19, 20), thr)
    ]_vars

\* adapt has run with a far-out observation on a configuration whose threshold
\* was installed above the clamp range
C16_Witness ==
  /\ last = "adapt"
  /\ args.observed = Rat(100, 1)
  /\ thresholds[1].learningRate = Rat(1, 100)
  /\ thresholds[1].threshold = Rat(19, 20)
  /\ thresholds[1].adapts = 1

\* C17: adapt(facet, observed) with observed below the facet's current threshold
\* strictly decreases the stored threshold.
C17_AdaptDecreases ==
  [][(/\ last' = "adapt"
      /\ CfgIndex(thresholds, args'.facet) # 0
      /\ RatLess(args'.observed, thresholds[CfgIndex(thresholds, args'.facet)].threshold)) =>
       LET k == CfgIndex(thresholds, args'.facet)
       IN RatLess(thresholds'[k].threshold, thresholds[k].threshold)
    ]_vars

\* C17 as amended: with a positive learning rate and a current threshold above
\* the lower end 0.5 of the clamp range, adapt with observed below the threshold
\* strictly decreases the stored threshold, to no less than 0.5; a threshold
\* that is already at 0.5 stays there.
C17_AdaptDecreasesAboveClampMin ==
  [][(/\ last' = "adapt"
      /\ CfgIndex(thresholds, args'.facet) # 0
      /\ RatLess(args'.observed, thresholds[CfgIndex(thresholds, args'.facet)].threshold)
      /\ RatLess(Rat(0, 1), thresholds[CfgIndex(thresholds, args'.facet)].learningRate)) =>
       LET k == CfgIndex(thresholds, args'.facet)
       IN /\ RatLess(Rat(1, 2), thresholds[k].threshold) =>
               /\ RatLess(thresholds'[k].threshold, thresholds[k].threshold)
               /\ ~RatLess(thresholds'[k].threshold, Rat(1, 2))
          /\ thresholds[k].threshold = Rat(1, 2) => thresholds'[k].threshold = Rat(1, 2)
    ]_vars

\* adapt has moved the default threshold 0.7 down to 0.693 on an observation of 0
C17_Witness ==
  /\ last = "adapt"
  /\ args.observed = Rat(0, 1)
  /\ args.facet = 0
  /\ thresholds[1].threshold = Rat(693, 1000)

\* C18: for every monitored facet - a default one or one that became monitored
\* through setThreshold - a handler registered with onInterrupt is recorded, and
\* each later check() that finds the facet below its threshold invokes the
\* recorded handlers.
C18_HandlerRecordedForMonitored ==
  [][/\ (/\ last' = "onInterrupt"
         /\ ValidFacet(args'.facet)
         /\ CfgIndex(thresholds, args'.facet) # 0) =>
          /\ args'.facet \in DOMAIN handlers'
          /\ handlers'[args'.facet]
               = Append(HandlersOf(handlers, args'.facet), args'.handler)
     /\ (last' = "check") =>
          \A k \in 1..Len(thresholds) :
             FiresAt(k) =>
               \A i \in 1..Len(HandlersOf(handlers, thresholds[k].facet)) :
                 \E j \in 1..Len(calls') :
                    calls'[j] = [facet |-> thresholds[k].facet,
                                 handler |-> HandlersOf(handlers, thresholds[k].facet)[i]]
    ]_vars

\* the interrupts of a pass that are about facet f
InterruptsOf(seq, f) == SelectSeq(seq, LAMBDA intr : intr.facet = f)

\* C37: one check() pass treats each monitored facet as follows: with
\* similarity(current, lastObserved) >= threshold no handler is invoked and the
\* facet's snapshot and threshold are unchanged; below the threshold the
\* notification carries delta = current - lastObserved of the snapshot before
\* the update, afterwards lastObserved is the current value, and adapt is
\* applied exactly once with the observed similarity. check() never writes to
\* the arena.
C37_CheckPerFacet ==
  [][(last' = "check") =>
       /\ mindView' = mindView
       /\ \A k \in 1..Len(thresholds) :
            ValidFacet(thresholds[k].facet) =>
              LET f == thresholds[k].facet
                  curr == FacetView(mindView, f)
                  sim == cosineSimilarity(curr, lastStates[f])
              IN IF RatLess(sim, thresholds[k].threshold)
                 THEN /\ InterruptsOf(fired', f)
                           = <<[facet |-> f, similarity |-> sim,
                                delta |-> [i \in 1..FACET_SIZE |->
                                             curr[i] - lastStates[f][i]]]>>
                      /\ SelectSeq(calls', LAMBDA c : c.facet = f)
                           = Invocations(HandlersOf(handlers, f), f)
                      /\ lastStates'[f] = curr
                      /\ thresholds'[k] = adapted(thresholds[k], sim)
                 ELSE /\ InterruptsOf(fired', f) = <<>>
                      /\ SelectSeq(calls', LAMBDA c : c.facet = f) = <<>>
                      /\ lastStates'[f] = lastStates[f]
                      /\ thresholds'[k] = thresholds[k]
    ]_vars

\* C38: no notification without change: a monitored facet whose current value
\* is identical to its last observed snapshot gets no notification from
\* check(), also when the facet is all zeros; two passes with no arena write
\* in between never fire twice for the same facet.
C38_NoNotificationWithoutChange ==
  [][(last' = "check") =>
       \A k \in 1..Len(thresholds) :
         LET f == thresholds[k].facet
         IN (ValidFacet(f) /\ FacetView(mindView, f) = lastStates[f]) =>
              /\ InterruptsOf(fired', f) = <<>>
              /\ SelectSeq(calls', LAMBDA c : c.facet = f) = <<>>
    ]_vars

\* C39: setThreshold with a facet outside [0, NUM_FACETS) fails with 'Invalid
\* facet' and leaves the monitored facets, their thresholds and their last
\* observed snapshots unchanged, so every later check() pass completes over all
\* monitored facets without raising.
C39_SetThresholdRejectsInvalidFacet ==
  [][/\ (last' = "setThreshold" /\ ~ValidFacet(args'.facet)) =>
          (/\ ret' = Throw("Invalid facet")
           /\ thresholds' = thresholds
           /\ lastStates' = lastStates)
     /\ (last' = "check") =>
          (/\ ret' = RetVoid
           /\ \A k \in 1..Len(thresholds) : ValidFacet(thresholds[k].facet))
    ]_vars

(* ================================================================== *)
(* Claims about the arena, checked under SpecMind                       *)
(* ================================================================== *)
\* C19: writeFacet fails with the invalid-index error when the facet index is
\* outside [0, NUM_FACETS) and with the length-mismatch error when the vector
\* length is not FACET_SIZE; a failed write changes no facet and no shadow
\* vector; after a successful write the facet equals the written vector.
C19_WriteFacet ==
  [][(last' = "writeFacet") =>
       LET idx == args'.facet
           src == args'.vec
           badIdx == idx \notin Facets
           badLen == Len(src) # FACET_SIZE
       IN /\ (badIdx /\ ~badLen) => ret' = Throw("Invalid facet")
          /\ (badLen /\ ~badIdx) => ret' = Throw("Source must be FACET_SIZE")
          /\ (badIdx /\ badLen) =>
                ret' \in {Throw("Invalid facet"), Throw("Source must be FACET_SIZE")}
          /\ (badIdx \/ badLen) => (mindView' = mindView /\ lastSnapshot' = lastSnapshot)
          /\ (~badIdx /\ ~badLen) => (ret' = RetVoid /\ FacetView(mindView', idx) = src)
    ]_vars

\* a write to an index outside the arena has been rejected while the arena
\* holds written data
C19_Witness ==
  /\ last = "writeFacet"
  /\ ret = Throw("Invalid facet")
  /\ args.facet = NUM_FACETS
  /\ FacetView(mindView, 0) = Axis(1, 1)

\* C20: writeFacet, applyGradient and resetFacet on facet i leave the contents
\* and the shadow vector of every facet j # i unchanged.
C20_NoCrossSlotEffects ==
  [][(last' \in {"writeFacet", "applyGradient", "resetFacet"}) =>
       \A j \in Facets :
          j # args'.facet =>
            /\ FacetView(mindView', j) = FacetView(mindView, j)
            /\ lastSnapshot'[j] = lastSnapshot[j]
    ]_vars

\* a gradient has been applied to facet 1 while facet 0 holds data and a
\* non-zero shadow vector
C20_Witness ==
  /\ last = "applyGradient"
  /\ ret = RetVoid
  /\ args.facet = 1
  /\ FacetView(mindView, 1) # ZeroVec
  /\ FacetView(mindView, 0) # ZeroVec
  /\ lastSnapshot[0] # ZeroVec

\* C21: applyGradient(facet, delta, lr, mom) adds lr*delta[i] + mom*p[i] to
\* every element of the facet, where p is what the previous applyGradient on
\* the facet added in total (zero if there was none since construction or
\* reset), and records the newly added total as p.
C21_GradientWithMomentum ==
  [][(last' = "applyGradient" /\ ret' = RetVoid) =>
       LET f == args'.facet
       IN \A k \in 1..FACET_SIZE :
            FacetView(mindView', f)[k] =
              FacetView(mindView, f)[k]
                + (args'.lr * args'.vec[k] + args'.mom * applied[f][k])
    ]_vars

(* ================================================================== *)
(* Claims about the router, checked under SpecRouter                    *)
(* ================================================================== *)
\* the similarity of tool i's centroid to the intent facet
SimOf(i) == cosineSimilarity(FacetView(mindView, 0), toolMap[i].centroid)

\* toolId is the id of a tool in the tool map
Registered(toolId) == \E i \in 1..Len(toolMap) : toolMap[i].toolId = toolId

\* C22: with at least one centroid registered, route() returns the id of a
\* registered centroid whose similarity to the query facet is maximal over all
\* registered centroids (the first registered one among ties), with confidence
\* equal to that similarity.
C22_RouteReturnsBest ==
  [][(last' = "route" /\ Len(toolMap) > 0) =>
       /\ ret' = RetRouted
       /\ Len(routed') = 1
       /\ \E i \in 1..Len(toolMap) :
            /\ routed'[1] = [toolId |-> toolMap[i].toolId, confidence |-> SimOf(i)]
            /\ \A j \in 1..Len(toolMap) : ~RatLess(SimOf(i), SimOf(j))
            /\ \A j \in 1..(i - 1) : RatLess(SimOf(j), SimOf(i))
    ]_vars

\* C23: for every integer k >= 0 and n >= 1 registered centroids, routeTopK(k)
\* returns exactly min(k, n) results, ordered by non-increasing similarity,
\* centroids of equal similarity in registration order, each registered
\* centroid at most once.
C23_TopKOrdered ==
  [][(last' = "routeTopK" /\ Len(toolMap) > 0 /\ args'.k >= 0) =>
       LET n == Len(toolMap)
           m == IF args'.k < n THEN args'.k ELSE n
       IN /\ ret' = RetRouted
          /\ Len(routed') = m
          /\ \E f \in [1..m -> 1..n] :
               /\ \A j \in 1..m :
                    routed'[j] = [toolId |-> toolMap[f[j]].toolId,
                                  confidence |-> SimOf(f[j])]
               /\ \A j, l \in 1..m :
                    j < l =>
                      /\ f[j] # f[l]
                      /\ ~RatLess(SimOf(f[j]), SimOf(f[l]))
                      /\ SimOf(f[j]) = SimOf(f[l]) => f[j] < f[l]
    ]_vars

\* C24: updateTool(id, feedback, lr) for a registered id and feedback of
\* FACET_SIZE floats increments that centroid's hit count by exactly 1 and
\* modifies only that centroid's vector: every other tool, the named tool's
\* accuracy, and the arena are unchanged.
C24_UpdateFrame ==
  [][(last' = "updateTool" /\ Registered(args'.toolId)
        /\ Len(args'.vec) = FACET_SIZE) =>
       /\ Len(toolMap') = Len(toolMap)
       /\ \E i \in 1..Len(toolMap) :
            /\ toolMap[i].toolId = args'.toolId
            /\ toolMap'[i].toolId = toolMap[i].toolId
            /\ toolMap'[i].hitCount = toolMap[i].hitCount + 1
            /\ toolMap'[i].accuracy = toolMap[i].accuracy
            /\ \A j \in 1..Len(toolMap) : j # i => toolMap'[j] = toolMap[j]
       /\ mindView' = mindView
       /\ lastSnapshot' = lastSnapshot
    ]_vars

\* tool 1 of four has been moved onto axis 2 and counted once, with accuracy
\* recorded before, while the later tool of the same id and the arena's intent
\* stay as they were
C24_Witness ==
  /\ last = "updateTool"
  /\ ret = RetVoid
  /\ Len(toolMap) = 4
  /\ toolMap[1] = ToolSeed(1, Axis(2, 1), 1, Rat(1, 10))
  /\ toolMap[4] = NewTool(1, Axis(2, 2))
  /\ FacetView(mindView, 0) = Axis(1, 1)

\* C25: updateTool with an id that is not registered returns normally and
\* leaves every centroid vector, hit count and accuracy unchanged; updateTool
\* with feedback of a length other than FACET_SIZE on a registered id fails
\* with a length-mismatch error and leaves them unchanged as well.
C25_UpdateNotApplied ==
  [][(last' = "updateTool") =>
       /\ ~Registered(args'.toolId) => (ret' = RetVoid /\ toolMap' = toolMap)
       /\ (Registered(args'.toolId) /\ Len(args'.vec) # FACET_SIZE) =>
            (ret' = Throw("Feedback must be") /\ toolMap' = toolMap)
    ]_vars

\* feedback of a wrong length has been refused for a tool that was updated before
C25_Witness ==
  /\ last = "updateTool"
  /\ ret = Throw("Feedback must be")
  /\ Len(args.vec) = FACET_SIZE + 1
  /\ Len(toolMap) = 2
  /\ toolMap[FindTool(toolMap, args.toolId)].hitCount = 1

\* C26: route() and routeTopK(k) fail with a not-initialized error whenever no
\* centroid is registered, without modifying router or arena state.
C26_NotInitialized ==
  [][(last' \in {"route", "routeTopK"} /\ Len(toolMap) = 0) =>
       /\ ret' = Throw("Tool map not initialized")
       /\ routed' = <<>>
       /\ toolMap' = toolMap
       /\ mindView' = mindView
       /\ lastSnapshot' = lastSnapshot
    ]_vars

\* route() has failed on an empty tool map while the intent facet holds a vector
C26_Witness ==
  /\ last = "route"
  /\ ret = Throw("Tool map not initialized")
  /\ toolMap = <<>>
  /\ FacetView(mindView, 0) = Axis(2, 1)

\* C27: initializeToolMap(tools) rejects with a length-mismatch error any list
\* containing a centroid whose length is not FACET_SIZE, so every stored
\* centroid has FACET_SIZE floats and route() never fails because of a stored
\* centroid's length.
C27_InitializeChecksLength ==
  [][/\ (last' = "initializeToolMap"
           /\ \E k \in 1..Len(args'.tools) :
                 Len(args'.tools[k].centroid) # FACET_SIZE) => ret'.kind = "throw"
     /\ \A i \in 1..Len(toolMap') : Len(toolMap'[i].centroid) = FACET_SIZE
     /\ last' = "route" => ret' # Throw("Vectors must be")
    ]_vars

\* 0 <= a <= 1
InUnit(a) == ~RatLess(a, Rat(0, 1)) /\ ~RatLess(Rat(1, 1), a)

\* C28: every centroid's accuracy stays within [0,1] after any sequence of
\* initializeToolMap, updateTool and recordAccuracy calls; recordAccuracy(id,
\* correct) sets the named centroid's accuracy to 0.1*(1 if correct else 0) +
\* 0.9*(old accuracy), changes no centroid vector and no hit count, and is a
\* no-op for an unknown id.
C28_AccuracyAverage ==
  [][/\ \A i \in 1..Len(toolMap') : InUnit(toolMap'[i].accuracy)
     /\ last' = "recordAccuracy" =>
          IF Registered(args'.toolId)
          THEN \E i \in 1..Len(toolMap) :
                 /\ toolMap[i].toolId = args'.toolId
                 /\ toolMap' =
                      [toolMap EXCEPT ![i].accuracy =
                         RatAdd(RatMul(Rat(1, 10),
                                       IF args'.correct THEN Rat(1, 1) ELSE Rat(0, 1)),
                                RatMul(Rat(9, 10), toolMap[i].accuracy))]
          ELSE toolMap' = toolMap
    ]_vars

\* C40: centroid state is mutated only by initializeToolMap, updateTool and
\* recordAccuracy: route, routeTopK, getToolStats and getAllToolStats leave
\* every centroid, hit count and accuracy and every arena facet unchanged; the
\* query vector route returns is a copy that later arena writes do not alter;
\* later updateTool calls do not alter the seed vectors the caller handed to
\* initializeToolMap.
C40_ReadsLeaveStateAlone ==
  [][/\ (last' \in {"route", "routeTopK", "getToolStats", "getAllToolStats"}) =>
          (toolMap' = toolMap /\ mindView' = mindView /\ seeds' = seeds)
     /\ (toolMap' # toolMap) =>
          last' \in {"initializeToolMap", "updateTool", "recordAccuracy"}
     /\ (last' \in {"route", "routeTopK"} /\ ret' = RetRouted) =>
          Contents(intentVector)' = intent
     /\ (last' = "writeFacet" /\ intentVector.kind # "none") =>
          (intentVector'.kind # "none" /\ Contents(intentVector)' = Contents(intentVector))
     /\ (last' = "updateTool") => seeds' = seeds
    ]_vars

\* the arena's intent facet has been overwritten while the caller holds the
\* query vector of a route() made after an update moved a centroid away from
\* its seed
C40_Witness ==
  /\ last = "writeFacet"
  /\ Len(routed) = 1
  /\ intentVector.kind = "own"
  /\ intentVector.data = Axis(1, 1)
  /\ intent = Axis(2, 1)
  /\ Len(toolMap) = 2
  /\ toolMap[1].hitCount = 1
  /\ toolMap[1].centroid # seeds[1]

(* ================================================================== *)
(* Claims about the vector operations, checked under SpecOps            *)
(* ================================================================== *)
\* the latest call was handed an operand whose length is not FACET_SIZE
WrongLength(a) ==
  \/ Len(a.vec) # FACET_SIZE
  \/ a.vec2 # <<>> /\ Len(a.vec2) # FACET_SIZE

\* C29: every SIMDOpsService operation (cosineSimilarity, normalize, addScaled,
\* clipGradient, relu) given an operand whose length is not FACET_SIZE fails
\* with a length-mismatch error and leaves its operands unmodified.
C29_OpsLengthChecked ==
  [][(last' \in {"cosineSimilarity", "normalize", "addScaled", "clipGradient", "relu"}
        /\ WrongLength(args')) =>
       /\ ret'.kind = "throw"
       /\ operand' = args'.vec
    ]_vars

(* ================================================================== *)
(* Claims about one producer and one consumer, checked under SpecSpsc   *)
(* ================================================================== *)
\* C30: when the single consumer's readNext interleaves with the single
\* producer's push, readNext never returns a slot that the producer has claimed
\* (head advanced past it) and not yet written.
C30_PublicationOrder ==
  [][(cons.pc = "store" /\ cons'.pc = "idle") =>
       \A p \in Producers : ~(Claimed(prod[p]) /\ prod[p].head = cons.tail)
    ]_vars

\* C31: with one producer and one consumer running concurrently, a push never
\* writes into a slot that holds a successfully pushed vector which readNext has
\* not yet returned, in any interleaving and across any number of wraps.
C31_NoUnreadOverwritten ==
  [][\A p \in Producers :
       (prod[p].pc = "write" /\ prod'[p].pc # "write") => prod[p].head \notin unread
    ]_vars

\* C35: the view returned by a non-null readNext stays stable until the
\* consumer's next readNext call: no push by the single producer modifies the
\* contents of the slot that was just returned.
C35_ViewStable ==
  [][(view # -1 /\ view' = view) => slots'[view] = slots[view]]_vars

(* ================================================================== *)
(* Claims about any interleaving, checked under SpecRace                *)
(* ================================================================== *)
\* C8: in every reachable state, under any interleaving of push, readNext,
\* iterate and reset, head and tail are integers in [0, RING_SLOTS).
C8_HeadTailInRange ==
  /\ header[0] \in 0..(RING_SLOTS - 1)
  /\ header[1] \in 0..(RING_SLOTS - 1)

\* head has wrapped past slot 0, behind tail, while the worker resets the ring
\* and the consumer is inside a traversal
C8_Witness ==
  /\ header[2] > 0
  /\ header[0] < header[1]
  /\ rst = [by |-> "worker", pc |-> "head"]
  /\ cons.pc = "iterLoop"

====
